---- MODULE Spec2Model ----
(***************************************************************************)
(* Trade lifecycle engine of the CarBN backend (package trade), together   *)
(* with the collaborators it shares rows with: user.Service.SellCar,       *)
(* feed.Service.CreateFeed and the subscription gate.                      *)
(*                                                                         *)
(* The handlers run as concurrent requests against one PostgreSQL          *)
(* database.  Every transaction is opened with pool.Begin(ctx), i.e. with  *)
(* the server's default isolation level READ COMMITTED: each statement     *)
(* reads the rows committed when it starts (plus the transaction's own     *)
(* writes), an UPDATE of a row that another open transaction has written   *)
(* waits for that transaction to end and then acts on the newest version   *)
(* of the row, and the writes become visible to others at COMMIT.          *)
(* One model step is one SQL statement together with the Go code that      *)
(* follows it up to the next statement.                                    *)
(***************************************************************************)
EXTENDS Naturals, Integers, Sequences, FiniteSets, Bags, TLC

\* ---------------------------------------------------------------- bounds
MaxTrades == 2      \* trade ids the sequence trades_id_seq may hand out
MaxFeed   == 2      \* rows the feed table may hold
MaxTokens == 3      \* refresh JWTs that may be generated
MaxPurchases == 2   \* purchases that may be processed for a user
MaxRequests == 2    \* friend request ids the sequence may hand out

\* ------------------------------------------------------------- constants
SystemUser == 0     \* user_id 0 owns sold cars

Users == {1, 2, 3}
Cars  == {1, 2, 3}
Procs == {1, 2}     \* concurrently served requests

InitOwner == [c \in Cars |-> IF c = 3 THEN 2 ELSE 1]

\* the trade requests (from, to, fromItems, toItems) clients send
Offers == { <<1, 2, <<1, 2>>, <<3>> >>,
            <<1, 3, <<1>>, <<>> >>,
            <<2, 1, <<1>>, <<>> >> }

Rarity(c) == IF c = 1 THEN 1 ELSE 2

GetCurrencyForRarity(rarity) ==
    CASE rarity = 1 -> 500
      [] rarity = 2 -> 750
      [] rarity = 3 -> 1250
      [] rarity = 4 -> 2000
      [] rarity = 5 -> 5000
      [] OTHER      -> 0

\* subscription_products.scan_credits of the products on sale, by the last
\* part of their product_id
ScanCredits(product) ==
    CASE product = "basic"             -> 30
      [] product = "standard"          -> 60
      [] product = "premium"           -> 100
      [] product = "tencredits"        -> 10
      [] product = "fiftycredits"      -> 50
      [] product = "onehundredcredits" -> 100
      [] OTHER                         -> 0

\* subscription_products.type
ProductType(product) ==
    IF product \in {"basic", "standard", "premium"}
    THEN "subscription" ELSE "scanpack"

\* the scan credits of a user without a row in user_subscriptions
DefaultCredits == 6

\* common.UpgradeCost
UpgradeCost == 5000

\* original_transaction_id of a row of user_subscriptions that no App Store
\* transaction has written (NULL)
NoTransaction == 0

\* the image paths (high_res_image, low_res_image) a scan stored for a car
OriginalImages(c) == <<"original", c>>

VARIABLES
    owner,      \* user_cars.user_id of every car row (committed)
    trades,     \* committed rows of table trades, keyed by id
    nextId,     \* next value of the SERIAL sequence of trades.id
    feed,       \* bag of committed rows of table feed
    subs,       \* users with an active row in user_subscriptions
    currency,   \* users.currency (committed)
    proc,       \* per request: position, arguments, locals, open transaction
    resp,       \* the request that returned in the last step, with its result
    refreshTokens,  \* committed rows of table refresh_tokens, keyed by token
    jwts,           \* number of refresh JWTs generated so far
    clientTokens,   \* refresh tokens that were returned to a client
    credits,        \* user_subscriptions.scan_credits_remaining, per row
    scans,          \* per user, the ScanImage calls that returned a car
    purchased,      \* per user, the products of the processed purchases
    images,         \* user_cars.(high_res_image, low_res_image) of a car
    carUpgrades,    \* committed rows of table car_upgrades, oldest first
    friends,        \* committed rows of table friends, keyed by id
    friendsId,      \* next value of the SERIAL sequence of friends.id
    scanPackPurchases,      \* scan_pack_purchases.transaction_id, committed
    originalTransactionId   \* user_subscriptions.original_transaction_id

\* the tables of the token, subscription and upgrade services
serviceVars == <<refreshTokens, jwts, clientTokens, credits, scans,
                 purchased, images, carUpgrades, friends, friendsId,
                 scanPackPurchases, originalTransactionId>>

vars == <<owner, trades, nextId, feed, subs, currency, proc, resp,
          serviceVars>>

Range(s) == {s[k] : k \in 1..Len(s)}

EmptyFn == <<>>

\* a request slot that serves nothing
Idle == [pc |-> "idle", op |-> "none", user |-> 0, to |-> 0, from |-> 0,
         fl |-> <<>>, tl |-> <<>>, tid |-> 0, car |-> 0, i |-> 0,
         status |-> "none", cands |-> {},
         wOwner |-> EmptyFn, wTrades |-> EmptyFn, wCur |-> EmptyFn]

NoResp == [op |-> "none", user |-> 0, to |-> 0, from |-> 0,
           fl |-> <<>>, tl |-> <<>>, tid |-> 0, car |-> 0,
           status |-> "none", res |-> "none",
           owner0 |-> EmptyFn, trades0 |-> EmptyFn, currency0 |-> EmptyFn]

\* the value returned to the caller of request rec, with the committed
\* tables as they were just before the returning step
MkResp(p, rec, res) ==
    [op |-> rec.op, user |-> rec.user, to |-> rec.to,
     from |-> rec.from, fl |-> rec.fl, tl |-> rec.tl, tid |-> rec.tid,
     car |-> rec.car, status |-> rec.status, res |-> res,
     owner0 |-> owner, trades0 |-> trades, currency0 |-> currency]

\* fault: an INSERT that stores the two item lists in each other's column
TradeRowSwapped(from, to, fl, tl) ==
    [from |-> from, to |-> to, fromItems |-> tl, toItems |-> fl,
     status |-> "pending", tradedAt |-> FALSE]

\* INSERT INTO trades (user_id_from, user_id_to, status,
\* user_from_user_car_ids, user_to_user_car_ids); traded_at is NULL
TradeRow(from, to, fl, tl) ==
    [from |-> from, to |-> to, fromItems |-> fl, toItems |-> tl,
     status |-> "pending", tradedAt |-> FALSE]

Init ==
    /\ owner = InitOwner
    /\ trades = EmptyFn
    /\ nextId = 1
    /\ feed = EmptyBag
    /\ subs = Users
    /\ currency = [u \in Users |-> 0]
    /\ proc = [p \in Procs |-> Idle]
    /\ resp = NoResp
    /\ refreshTokens = EmptyFn
    /\ jwts = 0
    /\ clientTokens = {}
    /\ credits = [u \in Users |-> ScanCredits("basic")]
    /\ scans = [u \in Users |-> 0]
    /\ purchased = [u \in Users |-> <<"basic">>]
    /\ images = [c \in Cars |-> OriginalImages(c)]
    /\ carUpgrades = <<>>
    /\ friends = EmptyFn
    /\ friendsId = 1
    /\ scanPackPurchases = {}
    /\ originalTransactionId = [u \in Users |-> NoTransaction]

\* ------------------------------------------------- transaction machinery

\* rows as statement of request p reads them: committed rows overlaid with
\* the uncommitted writes of p's own transaction
ViewOwner(p) ==
    [c \in Cars |-> IF c \in DOMAIN proc[p].wOwner
                    THEN proc[p].wOwner[c] ELSE owner[c]]

ViewTrades(p) == proc[p].wTrades @@ trades

\* row locks held by the open transactions of the other requests
CarLocked(p, c) ==
    \E q \in Procs \ {p} : c \in DOMAIN proc[q].wOwner

TradeLocked(p, t) ==
    \E q \in Procs \ {p} : t \in DOMAIN proc[q].wTrades

UserLocked(p, u) ==
    \E q \in Procs \ {p} : u \in DOMAIN proc[q].wCur

\* the request goes on to its next statement; nothing is committed
Continue(p, rec) ==
    /\ proc' = [proc EXCEPT ![p] = rec]
    /\ resp' = NoResp
    /\ UNCHANGED <<owner, trades, currency>>

\* return err: the deferred tx.Rollback discards the transaction's writes
Fail(p, rec, res) ==
    /\ proc' = [proc EXCEPT ![p] = Idle]
    /\ resp' = MkResp(p, rec, res)
    /\ UNCHANGED <<owner, trades, currency>>

\* the committed tables after tx.Commit of request p
CommittedOwner(p) == ViewOwner(p)

CommittedTrades(p) == ViewTrades(p)

CommittedCurrency(p) ==
    [u \in Users |-> IF u \in DOMAIN proc[p].wCur
                     THEN proc[p].wCur[u] ELSE currency[u]]

\* return tx.Commit(ctx)
Commit(p) ==
    /\ owner' = CommittedOwner(p)
    /\ trades' = CommittedTrades(p)
    /\ currency' = CommittedCurrency(p)
    /\ proc' = [proc EXCEPT ![p] = Idle]
    /\ resp' = MkResp(p, proc[p], "ok")

\* an arriving request is served in the first free slot, once the caller
\* has the response of the request that returned before
Free(p) ==
    /\ resp = NoResp
    /\ proc[p].pc = "idle"
    /\ \A q \in Procs : q < p => proc[q].pc # "idle"

\* ------------------------------------------------------ subscription gate

\* fault: a subscription gate that lets every user through
HasActiveSubscriptionAlways(u) == u \in Users

\* SubscriptionService.HasActiveSubscription
HasActiveSubscription(u) == u \in subs

\* the subscription of u ends (subscription_end passes, or is_active is
\* cleared by a store notification)
Expire(u) ==
    /\ resp = NoResp
    /\ u \in subs
    /\ subs' = subs \ {u}
    /\ resp' = NoResp
    /\ UNCHANGED <<owner, trades, nextId, feed, currency, proc>>
    /\ UNCHANGED serviceVars

\* u buys a subscription
Subscribe(u) ==
    /\ resp = NoResp
    /\ u \notin subs
    /\ subs' = subs \cup {u}
    /\ resp' = NoResp
    /\ UNCHANGED <<owner, trades, nextId, feed, currency, proc>>
    /\ UNCHANGED serviceVars

\* ------------------------------------------------------------ CreateTrade

\* fault: a verifyCarOwnership whose query has no car id condition
OwnsCarAnyCar(p, u, c) == \E d \in Cars : ViewOwner(p)[d] = u

\* fault: a verifyCarOwnership that finds every car with the user
OwnsCarAlways(p, u, c) == c \in Cars

\* fault: a verifyCarOwnership that also rejects a car listed in a pending
\* trade
OwnsCarUnlisted(p, u, c) ==
    /\ c \in Cars
    /\ ViewOwner(p)[c] = u
    /\ \A t \in DOMAIN ViewTrades(p) :
          ViewTrades(p)[t].status = "pending" =>
              c \notin Range(ViewTrades(p)[t].fromItems)
                        \cup Range(ViewTrades(p)[t].toItems)

\* one iteration of the loop of verifyCarOwnership:
\* SELECT COUNT(*) FROM user_cars WHERE id = carID AND user_id = userID
OwnsCar(p, u, c) == c \in Cars /\ ViewOwner(p)[c] = u

\* fault: an existing-trade check that compares the item lists crosswise
ExistingTradeCountCrossed(p, from, to, fl, tl) ==
    Cardinality({t \in DOMAIN ViewTrades(p) :
                    /\ ViewTrades(p)[t].status = "pending"
                    /\ ViewTrades(p)[t].from = from
                    /\ ViewTrades(p)[t].to = to
                    /\ ViewTrades(p)[t].fromItems = tl
                    /\ ViewTrades(p)[t].toItems = fl})

\* SELECT COUNT(*) FROM trades WHERE status = 'pending' AND the four
\* columns equal the arguments (integer arrays compare element by element)
ExistingTradeCount(p, from, to, fl, tl) ==
    Cardinality({t \in DOMAIN ViewTrades(p) :
                    /\ ViewTrades(p)[t].status = "pending"
                    /\ ViewTrades(p)[t].from = from
                    /\ ViewTrades(p)[t].to = to
                    /\ ViewTrades(p)[t].fromItems = fl
                    /\ ViewTrades(p)[t].toItems = tl})

\* where CreateTrade stands after the loop over userFromCarIDs
CreateAfterVFrom(rec) ==
    IF Len(rec.tl) > 0 THEN [rec EXCEPT !.pc = "c_vto", !.i = 1]
    ELSE [rec EXCEPT !.pc = "c_insert", !.i = 0]

\* where CreateTrade stands after the existing-trade check
CreateAfterExists(rec) ==
    IF Len(rec.fl) > 0 THEN [rec EXCEPT !.pc = "c_vfrom", !.i = 1]
    ELSE CreateAfterVFrom(rec)

\* the request arrives; HasActiveSubscription(userIDFrom)
CreateTrade(p, from, to, fl, tl) ==
    /\ Free(p)
    /\ LET rec == [Idle EXCEPT !.op = "create", !.user = from, !.from = from,
                               !.to = to, !.fl = fl, !.tl = tl,
                               !.pc = "c_sub_to"]
       IN IF HasActiveSubscription(from)
          THEN Continue(p, rec)
          ELSE Fail(p, rec, "Ineligible")
    /\ UNCHANGED <<nextId, feed, subs>>
    /\ UNCHANGED serviceVars

\* HasActiveSubscription(userIDTo)
CreateCheckTo(p) ==
    /\ resp = NoResp
    /\ proc[p].pc = "c_sub_to"
    /\ IF HasActiveSubscription(proc[p].to)
       THEN Continue(p, [proc[p] EXCEPT !.pc = "c_exists"])
       ELSE Fail(p, proc[p], "Ineligible")
    /\ UNCHANGED <<nextId, feed, subs>>
    /\ UNCHANGED serviceVars

\* Begin; the existing-trade check; on a hit, Commit and return nil
CreateExists(p) ==
    /\ resp = NoResp
    /\ proc[p].pc = "c_exists"
    /\ LET rec == proc[p]
       IN IF ExistingTradeCount(p, rec.from, rec.to, rec.fl, rec.tl) > 0
          THEN Commit(p)
          ELSE Continue(p, CreateAfterExists(rec))
    /\ UNCHANGED <<nextId, feed, subs>>
    /\ UNCHANGED serviceVars

\* verifyCarOwnership(userIDFrom, userFromCarIDs), one car
CreateVerifyFrom(p) ==
    /\ resp = NoResp
    /\ proc[p].pc = "c_vfrom"
    /\ LET rec == proc[p]
       IN IF ~OwnsCar(p, rec.from, rec.fl[rec.i])
          THEN Fail(p, rec, "NotOwned")
          ELSE IF rec.i < Len(rec.fl)
               THEN Continue(p, [rec EXCEPT !.i = rec.i + 1])
               ELSE Continue(p, CreateAfterVFrom(rec))
    /\ UNCHANGED <<nextId, feed, subs>>
    /\ UNCHANGED serviceVars

\* verifyCarOwnership(userIDTo, userToCarIDs), one car
CreateVerifyTo(p) ==
    /\ resp = NoResp
    /\ proc[p].pc = "c_vto"
    /\ LET rec == proc[p]
       IN IF ~OwnsCar(p, rec.to, rec.tl[rec.i])
          THEN Fail(p, rec, "NotOwned")
          ELSE IF rec.i < Len(rec.tl)
               THEN Continue(p, [rec EXCEPT !.i = rec.i + 1])
               ELSE Continue(p, [rec EXCEPT !.pc = "c_insert", !.i = 0])
    /\ UNCHANGED <<nextId, feed, subs>>
    /\ UNCHANGED serviceVars

\* INSERT INTO trades ... VALUES (from, to, 'pending', fl, tl)
CreateInsert(p) ==
    /\ resp = NoResp
    /\ proc[p].pc = "c_insert"
    /\ nextId <= MaxTrades
    /\ LET rec == proc[p]
       IN Continue(p, [rec EXCEPT
              !.pc = "c_commit", !.tid = nextId,
              !.wTrades = (nextId :> TradeRow(rec.from, rec.to, rec.fl, rec.tl))
                          @@ rec.wTrades])
    /\ nextId' = nextId + 1
    /\ UNCHANGED <<feed, subs>>
    /\ UNCHANGED serviceVars

\* return tx.Commit(ctx)
CreateCommit(p) ==
    /\ resp = NoResp
    /\ proc[p].pc = "c_commit"
    /\ Commit(p)
    /\ UNCHANGED <<nextId, feed, subs>>
    /\ UNCHANGED serviceVars

\* ------------------------------------------------------------ AcceptTrade

\* fault: a status check that lets a declined trade through
IsPendingOrDeclined(status) == status # "accepted"

\* if status != "pending"
IsPending(status) == status = "pending"

\* where AcceptTrade stands after the loop of updateOwnership(userToCarIDs)
AcceptAfterUFrom(rec) ==
    IF Len(rec.tl) > 0 THEN [rec EXCEPT !.pc = "a_uto", !.i = 1]
    ELSE [rec EXCEPT !.pc = "a_status", !.i = 0]

\* where AcceptTrade stands after both ownership verifications: the status
\* check, then updateCarOwnerships
AcceptAfterVerify(rec) ==
    IF ~IsPending(rec.status) THEN [rec EXCEPT !.pc = "a_notpending", !.i = 0]
    ELSE IF Len(rec.fl) > 0 THEN [rec EXCEPT !.pc = "a_ufrom", !.i = 1]
    ELSE AcceptAfterUFrom(rec)

AcceptAfterVFrom(rec) ==
    IF Len(rec.tl) > 0 THEN [rec EXCEPT !.pc = "a_vto", !.i = 1]
    ELSE AcceptAfterVerify(rec)

\* where AcceptTrade stands after the recipient check
AcceptAfterSelect(rec) ==
    IF Len(rec.fl) > 0 THEN [rec EXCEPT !.pc = "a_vfrom", !.i = 1]
    ELSE AcceptAfterVFrom(rec)

\* go on at position rec.pc, or return "trade is not pending"
AcceptGoto(p, rec) ==
    IF rec.pc = "a_notpending"
    THEN Fail(p, rec, "NotPending")
    ELSE Continue(p, rec)

\* fault: a recipient check that lets either party of the trade through
IsEitherParty(user, row) == user \in {row.to, row.from}

\* if userID != userIDTo
IsRecipient(user, row) == user = row.to

\* the request arrives; Begin; SELECT ... FROM trades WHERE id = tradeID;
\* the recipient check
AcceptTrade(p, user, tid) ==
    /\ Free(p)
    /\ LET rec == [Idle EXCEPT !.op = "accept", !.user = user, !.tid = tid]
       IN IF tid \notin DOMAIN trades
          THEN Fail(p, rec, "NotFound")
          ELSE LET row == trades[tid]
                   got == [rec EXCEPT !.from = row.from, !.to = row.to,
                                      !.fl = row.fromItems,
                                      !.tl = row.toItems,
                                      !.status = row.status]
               IN IF ~IsRecipient(user, row)
                  THEN Fail(p, got, "NotRecipient")
                  ELSE AcceptGoto(p, AcceptAfterSelect(got))
    /\ UNCHANGED <<nextId, feed, subs>>
    /\ UNCHANGED serviceVars

\* verifyCarOwnership(userIDFrom, userFromCarIDs), one car
AcceptVerifyFrom(p) ==
    /\ resp = NoResp
    /\ proc[p].pc = "a_vfrom"
    /\ LET rec == proc[p]
       IN IF ~OwnsCar(p, rec.from, rec.fl[rec.i])
          THEN Fail(p, rec, "NotOwned")
          ELSE IF rec.i < Len(rec.fl)
               THEN Continue(p, [rec EXCEPT !.i = rec.i + 1])
               ELSE AcceptGoto(p, AcceptAfterVFrom(rec))
    /\ UNCHANGED <<nextId, feed, subs>>
    /\ UNCHANGED serviceVars

\* verifyCarOwnership(userIDTo, userToCarIDs), one car
AcceptVerifyTo(p) ==
    /\ resp = NoResp
    /\ proc[p].pc = "a_vto"
    /\ LET rec == proc[p]
       IN IF ~OwnsCar(p, rec.to, rec.tl[rec.i])
          THEN Fail(p, rec, "NotOwned")
          ELSE IF rec.i < Len(rec.tl)
               THEN Continue(p, [rec EXCEPT !.i = rec.i + 1])
               ELSE AcceptGoto(p, AcceptAfterVerify(rec))
    /\ UNCHANGED <<nextId, feed, subs>>
    /\ UNCHANGED serviceVars

\* fault: an updateOwnership that loses the transaction's earlier writes
UpdateOwnershipLast(w, carID, newUserID) ==
    IF carID \in Cars THEN (carID :> newUserID) ELSE w

\* fault: an updateOwnership whose UPDATE has no id condition
UpdateOwnershipEveryCar(w, carID, newUserID) ==
    IF carID \in Cars THEN [c \in Cars |-> newUserID] ELSE w

\* updateOwnership: UPDATE user_cars SET user_id = newUserID WHERE id = carID
\* as a write of the open transaction
UpdateOwnership(w, carID, newUserID) ==
    IF carID \in Cars THEN (carID :> newUserID) @@ w ELSE w

\* updateCarOwnerships, first loop: the cars of userIDFrom go to userIDTo
AcceptUpdateFrom(p) ==
    /\ resp = NoResp
    /\ proc[p].pc = "a_ufrom"
    /\ LET rec == proc[p]
           upd == [rec EXCEPT
                     !.wOwner = UpdateOwnership(rec.wOwner, rec.fl[rec.i], rec.to)]
       IN /\ ~CarLocked(p, rec.fl[rec.i])
          /\ IF rec.i < Len(rec.fl)
             THEN Continue(p, [upd EXCEPT !.i = rec.i + 1])
             ELSE Continue(p, AcceptAfterUFrom(upd))
    /\ UNCHANGED <<nextId, feed, subs>>
    /\ UNCHANGED serviceVars

\* updateCarOwnerships, second loop: the cars of userIDTo go to userIDFrom
AcceptUpdateTo(p) ==
    /\ resp = NoResp
    /\ proc[p].pc = "a_uto"
    /\ LET rec == proc[p]
           upd == [rec EXCEPT
                     !.wOwner = UpdateOwnership(rec.wOwner, rec.tl[rec.i], rec.from)]
       IN /\ ~CarLocked(p, rec.tl[rec.i])
          /\ IF rec.i < Len(rec.tl)
             THEN Continue(p, [upd EXCEPT !.i = rec.i + 1])
             ELSE Continue(p, [upd EXCEPT !.pc = "a_status", !.i = 0])
    /\ UNCHANGED <<nextId, feed, subs>>
    /\ UNCHANGED serviceVars

\* fault: an acceptance that leaves traded_at NULL
AcceptedRowNoTime(row) == [row EXCEPT !.status = "accepted"]

\* fault: an UPDATE of the accepted row that also rewrites its item lists
AcceptedRowSwapped(row) ==
    [row EXCEPT !.status = "accepted", !.tradedAt = TRUE,
                !.fromItems = row.toItems, !.toItems = row.fromItems]

\* UPDATE trades SET status = 'accepted', traded_at = NOW() WHERE id = $1
AcceptedRow(row) == [row EXCEPT !.status = "accepted", !.tradedAt = TRUE]

AcceptStatus(p) ==
    /\ resp = NoResp
    /\ proc[p].pc = "a_status"
    /\ LET rec == proc[p]
       IN /\ ~TradeLocked(p, rec.tid)
          /\ Continue(p, [rec EXCEPT
                 !.pc = "a_decline",
                 !.wTrades = (rec.tid :> AcceptedRow(ViewTrades(p)[rec.tid]))
                             @@ rec.wTrades])
    /\ UNCHANGED <<nextId, feed, subs>>
    /\ UNCHANGED serviceVars

\* fault: a declineTradesWithCars without the array overlap conditions
ConflictsEveryPending(row, id, excludeTradeID, carIDs) ==
    /\ id # excludeTradeID
    /\ row.status = "pending"

\* the WHERE clause of declineTradesWithCars on one row
Conflicts(row, id, excludeTradeID, carIDs) ==
    /\ id # excludeTradeID
    /\ row.status = "pending"
    /\ \/ Range(row.fromItems) \cap Range(carIDs) # {}
       \/ Range(row.toItems) \cap Range(carIDs) # {}

\* the rows the UPDATE of declineTradesWithCars finds when it starts
ConflictingTrades(p, excludeTradeID, carIDs) ==
    {t \in DOMAIN ViewTrades(p) :
        Conflicts(ViewTrades(p)[t], t, excludeTradeID, carIDs)}

\* declineTradesWithCars(tradeID, append(userFromCarIDs, userToCarIDs...)):
\* the UPDATE waits for the open transactions that wrote one of the rows it
\* found, evaluates its WHERE clause again on their newest version and
\* declines those that still match
AcceptDecline(p) ==
    /\ resp = NoResp
    /\ proc[p].pc \in {"a_decline", "a_decline_wait"}
    /\ LET rec    == proc[p]
           carIDs == rec.fl \o rec.tl
           cands  == IF rec.pc = "a_decline"
                     THEN ConflictingTrades(p, rec.tid, carIDs)
                     ELSE rec.cands
           hit    == {t \in cands :
                        Conflicts(ViewTrades(p)[t], t, rec.tid, carIDs)}
           wr     == [t \in hit |->
                        [ViewTrades(p)[t] EXCEPT !.status = "declined"]]
       IN IF Len(carIDs) = 0
          THEN Continue(p, [rec EXCEPT !.pc = "a_feed"])
          ELSE IF \E t \in cands : TradeLocked(p, t)
               THEN /\ rec.pc = "a_decline"
                    /\ Continue(p, [rec EXCEPT !.pc = "a_decline_wait",
                                               !.cands = cands])
               ELSE Continue(p, [rec EXCEPT !.pc = "a_feed", !.cands = {},
                                           !.wTrades = wr @@ rec.wTrades])
    /\ UNCHANGED <<nextId, feed, subs>>
    /\ UNCHANGED serviceVars

\* the row CreateFeed inserts; related_user_id is NULL (0) unless positive
FeedRow(userID, feedType, referenceID, relatedUserID) ==
    [user |-> userID, type |-> feedType, ref |-> referenceID,
     related |-> IF relatedUserID > 0 THEN relatedUserID ELSE 0]

\* s.feed.CreateFeed(ctx, userIDFrom, "trade_completed", tradeID, userIDTo):
\* an INSERT on the pool, outside the transaction, committed at once
AcceptFeed(p) ==
    /\ resp = NoResp
    /\ proc[p].pc = "a_feed"
    /\ BagCardinality(feed) < MaxFeed
    /\ LET rec == proc[p]
       IN /\ feed' = feed (+) SetToBag({FeedRow(rec.from, "trade_completed",
                                                rec.tid, rec.to)})
          /\ Continue(p, [rec EXCEPT !.pc = "a_commit"])
    /\ UNCHANGED <<nextId, subs>>
    /\ UNCHANGED serviceVars

\* CreateFeed returns an error: AcceptTrade returns it and rolls back
FeedFail(p) ==
    /\ resp = NoResp
    /\ proc[p].pc = "a_feed"
    /\ Fail(p, proc[p], "FeedError")
    /\ UNCHANGED <<nextId, feed, subs>>
    /\ UNCHANGED serviceVars

\* return tx.Commit(ctx)
AcceptCommit(p) ==
    /\ resp = NoResp
    /\ proc[p].pc = "a_commit"
    /\ Commit(p)
    /\ UNCHANGED <<nextId, feed, subs>>
    /\ UNCHANGED serviceVars

\* ----------------------------------------------------------- DeclineTrade

\* fault: a DeclineTrade whose UPDATE has no status condition
DeclineMatchesAny(tid) == tid \in DOMAIN trades

\* UPDATE trades SET status = 'declined' WHERE id = $1 AND status = 'pending'
\* on the pool (its own transaction); RowsAffected() == 0 is an error
DeclineMatches(tid) == tid \in DOMAIN trades /\ trades[tid].status = "pending"

\* fault: a DeclineTrade whose UPDATE has no id condition
DeclinedTradesAll(tid) ==
    [t \in DOMAIN trades |->
        IF trades[t].status = "pending"
        THEN [trades[t] EXCEPT !.status = "declined"] ELSE trades[t]]

\* fault: a DeclineTrade whose UPDATE also sets traded_at
DeclinedTradesStamped(tid) ==
    [trades EXCEPT ![tid].status = "declined", ![tid].tradedAt = TRUE]

\* table trades after the UPDATE of DeclineTrade has changed its row
DeclinedTrades(tid) == [trades EXCEPT ![tid].status = "declined"]

\* the request arrives (sent by any authenticated user: the handler does
\* not pass the user on); the UPDATE, committed at once
DeclineTrade(p, user, tid) ==
    /\ Free(p)
    /\ LET rec == [Idle EXCEPT !.op = "decline", !.user = user, !.tid = tid]
       IN IF DeclineMatches(tid)
          THEN /\ ~TradeLocked(p, tid)
               /\ trades' = DeclinedTrades(tid)
               /\ resp' = MkResp(p, rec, "ok")
               /\ UNCHANGED <<owner, currency, proc>>
          ELSE Fail(p, rec, "NotFound")
    /\ UNCHANGED <<nextId, feed, subs>>
    /\ UNCHANGED serviceVars

\* ---------------------------------------------------------------- SellCar

\* the request arrives; Begin; SELECT c.rarity ... WHERE uc.id = $1 AND
\* uc.user_id = $2
SellCar(p, user, car) ==
    /\ Free(p)
    /\ LET rec == [Idle EXCEPT !.op = "sell", !.user = user, !.car = car,
                               !.pc = "s_currency"]
       IN IF OwnsCar(p, user, car)
          THEN Continue(p, rec)
          ELSE Fail(p, rec, "NotOwned")
    /\ UNCHANGED <<nextId, feed, subs>>
    /\ UNCHANGED serviceVars

\* UPDATE users SET currency = currency + $1 WHERE id = $2
SellCurrency(p) ==
    /\ resp = NoResp
    /\ proc[p].pc = "s_currency"
    /\ LET rec == proc[p]
       IN /\ ~UserLocked(p, rec.user)
          /\ Continue(p, [rec EXCEPT
                 !.pc = "s_owner",
                 !.wCur = (rec.user :> (CommittedCurrency(p)[rec.user]
                              + GetCurrencyForRarity(Rarity(rec.car))))
                          @@ rec.wCur])
    /\ UNCHANGED <<nextId, feed, subs>>
    /\ UNCHANGED serviceVars

\* UPDATE user_cars SET user_id = 0 WHERE id = $1 AND user_id = $2; the
\* number of rows it changed is not looked at
SellOwner(p) ==
    /\ resp = NoResp
    /\ proc[p].pc = "s_owner"
    /\ LET rec == proc[p]
       IN IF OwnsCar(p, rec.user, rec.car)
          THEN /\ ~CarLocked(p, rec.car)
               /\ Continue(p, [rec EXCEPT
                      !.pc = "s_commit",
                      !.wOwner = UpdateOwnership(rec.wOwner, rec.car,
                                                 SystemUser)])
          ELSE Continue(p, [rec EXCEPT !.pc = "s_commit"])
    /\ UNCHANGED <<nextId, feed, subs>>
    /\ UNCHANGED serviceVars

\* tx.Commit(ctx)
SellCommit(p) ==
    /\ resp = NoResp
    /\ proc[p].pc = "s_commit"
    /\ Commit(p)
    /\ UNCHANGED <<nextId, feed, subs>>
    /\ UNCHANGED serviceVars

\* ------------------------------------------------------------- store error

\* a statement, or the commit, of the open transaction of p returns an
\* error (lost connection, cancelled context, deadlock victim): the handler
\* returns it and the deferred Rollback discards the writes
TxFail(p) ==
    /\ resp = NoResp
    /\ proc[p].pc # "idle"
    /\ Fail(p, [Idle EXCEPT !.op = proc[p].op, !.user = proc[p].user,
                            !.tid = proc[p].tid, !.car = proc[p].car],
            "StoreError")
    /\ UNCHANGED <<nextId, feed, subs>>
    /\ UNCHANGED serviceVars

\* ----------------------------------------------------------- GetTradeByID

\* common.FormatTimestamp of a traded_at that is not NULL
FormatTimestamp(at) == "timestamp"

\* return nil, nil
NilTradeInfo == [nil |-> TRUE]

\* SELECT ... FROM trades WHERE id = tradeID on the pool, scanned into a
\* TradeInfo; nil for no row; TradedAt stays nil for a NULL traded_at
GetTradeByID(tradeID) ==
    IF tradeID \notin DOMAIN trades THEN NilTradeInfo
    ELSE [ID |-> tradeID,
          UserIDFrom |-> trades[tradeID].from,
          UserIDTo |-> trades[tradeID].to,
          Status |-> trades[tradeID].status,
          UserFromCarIDs |-> trades[tradeID].fromItems,
          UserToCarIDs |-> trades[tradeID].toItems,
          TradedAt |-> IF trades[tradeID].tradedAt
                       THEN FormatTimestamp(trades[tradeID].tradedAt)
                       ELSE "nil"]

\* ---------------------------------------------------------- GetUserTrades

\* the instants CURRENT_TIMESTAMP takes when trade rows are inserted
Instants == {1, 2}

\* a row of table trades with its created_at
HistoryRow(from, to, fl, tl, at) ==
    [from |-> from, to |-> to, fromItems |-> fl, toItems |-> tl,
     status |-> "pending", tradedAt |-> FALSE, createdAt |-> at]

\* the sequences that list every element of ids once
Orderings(ids) ==
    {ord \in [1..Cardinality(ids) -> ids] :
        \A i, j \in 1..Cardinality(ids) : i # j => ord[i] # ord[j]}

\* WHERE ... ORDER BY created_at DESC: the orders in which the query may
\* return the rows ids; rows with equal created_at come in any order
UserTradesByCreatedAtDesc(ids) ==
    {ord \in Orderings(ids) :
        \A i, j \in 1..Len(ord) :
            i < j => trades[ord[i]].createdAt >= trades[ord[j]].createdAt}

\* LIMIT limit OFFSET offset
LimitOffset(ord, limit, offset) ==
    IF offset >= Len(ord) THEN <<>>
    ELSE SubSeq(ord, offset + 1,
                IF offset + limit < Len(ord) THEN offset + limit ELSE Len(ord))

\* WHERE user_id_from = $1 OR user_id_to = $1
UserTradeIds(userID) ==
    {t \in DOMAIN trades :
        trades[t].from = userID \/ trades[t].to = userID}

\* GetUserTrades(userID, page, pageSize): SELECT COUNT(*), then the page;
\* rows holds the ids of the TradeInfo values returned
GetUserTrades(userID, page, pageSize) ==
    /\ resp = NoResp
    /\ \E ord \in UserTradesByCreatedAtDesc(UserTradeIds(userID)) :
          resp' = [op |-> "history", user |-> userID, page |-> page,
                   pageSize |-> pageSize, res |-> "ok",
                   rows |-> LimitOffset(ord, pageSize, (page - 1) * pageSize),
                   total |-> Cardinality(UserTradeIds(userID))]
    /\ UNCHANGED <<owner, trades, nextId, feed, subs, currency, proc>>
    /\ UNCHANGED serviceVars

\* ---------------------------------------------------------- refresh tokens

\* a refresh token string that is no signed JWT
NoJWT == 0

\* the users that sign in
SignedIn == {1, 2}

\* a request slot that serves RefreshTokens or Logout: the token sent, the
\* user of its claims, the new refresh token, the rows its open transaction
\* has deleted
TokenRequest(op, pc, token, user) ==
    [pc |-> pc, op |-> op, token |-> token, user |-> user, new |-> NoJWT,
     wDel |-> {}]

\* the value returned to the caller, with table refresh_tokens as it was
\* before the returning step
TokenResponse(op, token, user, new, res) ==
    [op |-> op, token |-> token, user |-> user, new |-> new, res |-> res,
     tokens0 |-> refreshTokens]

\* INSERT INTO refresh_tokens (token, user_id, expires_at)
StoredToken(token, userID) ==
    (token :> [user |-> userID, expired |-> FALSE]) @@ refreshTokens

\* DELETE FROM refresh_tokens WHERE token = $1, committed
WithoutTokens(del) ==
    [t \in DOMAIN refreshTokens \ del |-> refreshTokens[t]]

\* the row of the token is locked by the open transaction of another request
TokenLocked(p, token) ==
    \E q \in Procs \ {p} :
        proc[q].op \in {"refresh", "logout"} /\ token \in proc[q].wDel

\* fault: a validation whose query has no expires_at condition
ValidRefreshTokenStored(token) == token \in DOMAIN refreshTokens

\* validateRefreshToken: the JWT parses, and
\* SELECT EXISTS(... WHERE token = $1 AND expires_at > NOW()) on the pool
ValidRefreshToken(token) ==
    /\ token # NoJWT
    /\ token \in DOMAIN refreshTokens
    /\ ~refreshTokens[token].expired

\* GoogleSignIn / AppleSignIn: generateJWT and storeRefreshTokenTx in the
\* transaction of the sign-in, then Commit
SignIn(userID) ==
    /\ resp = NoResp
    /\ jwts < MaxTokens
    /\ jwts' = jwts + 1
    /\ refreshTokens' = StoredToken(jwts + 1, userID)
    /\ clientTokens' = clientTokens \cup {jwts + 1}
    /\ resp' = TokenResponse("signin", NoJWT, userID, jwts + 1, "ok")
    /\ UNCHANGED <<owner, trades, nextId, feed, subs, currency, proc>>
    /\ UNCHANGED <<credits, scans, purchased, images, carUpgrades,
                   friends, friendsId, scanPackPurchases,
                   originalTransactionId>>

\* expires_at of the row, and exp of the JWT, pass
TokenExpire(token) ==
    /\ resp = NoResp
    /\ token \in DOMAIN refreshTokens
    /\ ~refreshTokens[token].expired
    /\ refreshTokens' = [refreshTokens EXCEPT ![token].expired = TRUE]
    /\ resp' = NoResp
    /\ UNCHANGED <<owner, trades, nextId, feed, subs, currency, proc>>
    /\ UNCHANGED <<jwts, clientTokens, credits, scans, purchased, images,
                   carUpgrades,
                   friends, friendsId, scanPackPurchases,
                   originalTransactionId>>

\* the request arrives with a token a client holds, or with a string that
\* is no JWT; Begin; 1. validateRefreshToken
RefreshTokens(p, token) ==
    /\ Free(p)
    /\ token \in clientTokens \cup {NoJWT}
    /\ IF ValidRefreshToken(token)
       THEN /\ proc' = [proc EXCEPT ![p] =
                           TokenRequest("refresh", "r_delete", token,
                                        refreshTokens[token].user)]
            /\ resp' = NoResp
       ELSE /\ resp' = TokenResponse("refresh", token, 0, NoJWT, "Invalid")
            /\ proc' = proc
    /\ UNCHANGED <<owner, trades, nextId, feed, subs, currency>>
    /\ UNCHANGED serviceVars

\* 2. invalidateRefreshTokenTx: DELETE in the transaction; it waits for the
\* transaction that has deleted the row and then finds the row or not
RefreshDelete(p) ==
    /\ resp = NoResp
    /\ proc[p].pc = "r_delete"
    /\ ~TokenLocked(p, proc[p].token)
    /\ proc' = [proc EXCEPT ![p].pc = "r_store",
                            ![p].wDel = {proc[p].token}
                                        \cap DOMAIN refreshTokens]
    /\ resp' = NoResp
    /\ UNCHANGED <<owner, trades, nextId, feed, subs, currency>>
    /\ UNCHANGED serviceVars

\* 3. generateJWT; 4. storeRefreshTokenTx(ctx, ...): ctx carries no "tx",
\* so the INSERT runs and commits in a transaction of its own
RefreshStore(p) ==
    /\ resp = NoResp
    /\ proc[p].pc = "r_store"
    /\ jwts < MaxTokens
    /\ jwts' = jwts + 1
    /\ refreshTokens' = StoredToken(jwts + 1, proc[p].user)
    /\ proc' = [proc EXCEPT ![p].pc = "r_commit", ![p].new = jwts + 1]
    /\ resp' = NoResp
    /\ UNCHANGED <<owner, trades, nextId, feed, subs, currency>>
    /\ UNCHANGED <<clientTokens, credits, scans, purchased, images,
                   carUpgrades,
                   friends, friendsId, scanPackPurchases,
                   originalTransactionId>>

\* 4. the INSERT, or the Commit, of storeRefreshTokenTx fails: the error is
\* assigned to the err of the else block and the function returns the
\* outer err, which is nil
RefreshStoreFail(p) ==
    /\ resp = NoResp
    /\ proc[p].pc = "r_store"
    /\ jwts < MaxTokens
    /\ jwts' = jwts + 1
    /\ proc' = [proc EXCEPT ![p].pc = "r_commit", ![p].new = jwts + 1]
    /\ resp' = NoResp
    /\ UNCHANGED <<owner, trades, nextId, feed, subs, currency>>
    /\ UNCHANGED <<refreshTokens, clientTokens, credits, scans, purchased,
                   images, carUpgrades,
                   friends, friendsId, scanPackPurchases,
                   originalTransactionId>>

\* tx.Commit; return newAccessToken, newRefreshToken, nil
RefreshCommit(p) ==
    /\ resp = NoResp
    /\ proc[p].pc = "r_commit"
    /\ refreshTokens' = WithoutTokens(proc[p].wDel)
    /\ clientTokens' = clientTokens \cup {proc[p].new}
    /\ resp' = TokenResponse("refresh", proc[p].token, proc[p].user,
                             proc[p].new, "ok")
    /\ proc' = [proc EXCEPT ![p] = Idle]
    /\ UNCHANGED <<owner, trades, nextId, feed, subs, currency>>
    /\ UNCHANGED <<jwts, credits, scans, purchased, images, carUpgrades,
                   friends, friendsId, scanPackPurchases,
                   originalTransactionId>>

\* the request arrives with a token a client holds, or with a string that
\* is no JWT; validateRefreshToken
Logout(p, token) ==
    /\ Free(p)
    /\ token \in clientTokens \cup {NoJWT}
    /\ IF ValidRefreshToken(token)
       THEN /\ proc' = [proc EXCEPT ![p] =
                           TokenRequest("logout", "l_delete", token,
                                        refreshTokens[token].user)]
            /\ resp' = NoResp
       ELSE /\ resp' = TokenResponse("logout", token, 0, NoJWT, "Invalid")
            /\ proc' = proc
    /\ UNCHANGED <<owner, trades, nextId, feed, subs, currency>>
    /\ UNCHANGED serviceVars

\* Begin; invalidateRefreshTokenTx
LogoutDelete(p) ==
    /\ resp = NoResp
    /\ proc[p].pc = "l_delete"
    /\ ~TokenLocked(p, proc[p].token)
    /\ proc' = [proc EXCEPT ![p].pc = "l_commit",
                            ![p].wDel = {proc[p].token}
                                        \cap DOMAIN refreshTokens]
    /\ resp' = NoResp
    /\ UNCHANGED <<owner, trades, nextId, feed, subs, currency>>
    /\ UNCHANGED serviceVars

\* tx.Commit; return nil
LogoutCommit(p) ==
    /\ resp = NoResp
    /\ proc[p].pc = "l_commit"
    /\ refreshTokens' = WithoutTokens(proc[p].wDel)
    /\ resp' = TokenResponse("logout", proc[p].token, proc[p].user, NoJWT,
                             "ok")
    /\ proc' = [proc EXCEPT ![p] = Idle]
    /\ UNCHANGED <<owner, trades, nextId, feed, subs, currency>>
    /\ UNCHANGED <<jwts, clientTokens, credits, scans, purchased, images,
                   carUpgrades,
                   friends, friendsId, scanPackPurchases,
                   originalTransactionId>>

\* Begin, the DELETE, generateJWT or the Commit of the request returns an
\* error: the handler returns it and the deferred Rollback discards the
\* DELETE
TokenFail(p) ==
    /\ resp = NoResp
    /\ proc[p].pc \in {"r_delete", "r_store", "r_commit", "l_delete",
                       "l_commit"}
    /\ resp' = TokenResponse(proc[p].op, proc[p].token, proc[p].user, NoJWT,
                             "StoreError")
    /\ proc' = [proc EXCEPT ![p] = Idle]
    /\ UNCHANGED <<owner, trades, nextId, feed, subs, currency>>
    /\ UNCHANGED serviceVars

\* ----------------------------------------------------------- scan credits

\* the users that scan and buy
Scanners == {1}

\* a request slot that serves ScanImage
ScanRequest(userID, pc) == [pc |-> pc, op |-> "scan", user |-> userID]

\* the value returned to the caller of ScanImage or ProcessPurchase, with
\* the scan credit rows as they were before the returning step
CreditResponse(op, userID, product, res) ==
    [op |-> op, user |-> userID, product |-> product, res |-> res,
     credits0 |-> credits]

\* the user's row of user_subscriptions is written, or being inserted, by
\* the open transaction of another request
CreditLocked(p, userID) ==
    \E q \in Procs \ {p} :
        proc[q].op = "purchase" /\ userID \in DOMAIN proc[q].wCredits

\* SubscriptionService.HasScanCredits: SELECT COALESCE(
\* scan_credits_remaining, 6) ...; no row counts as having credits
HasScanCredits(userID) ==
    IF userID \notin DOMAIN credits THEN TRUE ELSE credits[userID] > 0

\* the request arrives; HasScanCredits
ScanImage(p, userID) ==
    /\ Free(p)
    /\ IF HasScanCredits(userID)
       THEN /\ proc' = [proc EXCEPT ![p] = ScanRequest(userID, "sc_deduct")]
            /\ resp' = NoResp
       ELSE /\ resp' = CreditResponse("scan", userID, "none", "NoCredits")
            /\ proc' = proc
    /\ UNCHANGED <<owner, trades, nextId, feed, subs, currency>>
    /\ UNCHANGED serviceVars

\* the car is identified and stored; DeductScanCredit: UPDATE
\* user_subscriptions SET scan_credits_remaining = scan_credits_remaining
\* - 1 WHERE user_id = $1 AND scan_credits_remaining > 0 on the pool; with a
\* row changed ScanImage returns the car
ScanDeduct(p) ==
    /\ resp = NoResp
    /\ proc[p].pc = "sc_deduct"
    /\ LET userID == proc[p].user
       IN IF userID \in DOMAIN credits /\ credits[userID] > 0
          THEN /\ ~CreditLocked(p, userID)
               /\ credits' = [credits EXCEPT ![userID] = @ - 1]
               /\ scans' = [scans EXCEPT ![userID] = @ + 1]
               /\ resp' = CreditResponse("scan", userID, "none", "ok")
               /\ proc' = [proc EXCEPT ![p] = Idle]
          ELSE /\ proc' = [proc EXCEPT ![p].pc = "sc_insert"]
               /\ resp' = NoResp
               /\ UNCHANGED <<credits, scans,
                              friends, friendsId, scanPackPurchases,
                              originalTransactionId>>
    /\ UNCHANGED <<owner, trades, nextId, feed, subs, currency>>
    /\ UNCHANGED <<refreshTokens, jwts, clientTokens, purchased, images,
                   carUpgrades,
                   friends, friendsId, scanPackPurchases,
                   originalTransactionId>>

\* RowsAffected() == 0: INSERT INTO user_subscriptions (user_id,
\* scan_credits_remaining, tier) VALUES ($1, 5, 'none') ON CONFLICT
\* (user_id) DO NOTHING; ScanImage returns the car
ScanInsert(p) ==
    /\ resp = NoResp
    /\ proc[p].pc = "sc_insert"
    /\ LET userID == proc[p].user
       IN /\ userID \notin DOMAIN credits => ~CreditLocked(p, userID)
          /\ credits' = IF userID \in DOMAIN credits THEN credits
                        ELSE (userID :> DefaultCredits - 1) @@ credits
          /\ scans' = [scans EXCEPT ![userID] = @ + 1]
          /\ resp' = CreditResponse("scan", userID, "none", "ok")
    /\ proc' = [proc EXCEPT ![p] = Idle]
    /\ UNCHANGED <<owner, trades, nextId, feed, subs, currency>>
    /\ UNCHANGED <<refreshTokens, jwts, clientTokens, purchased, images,
                   carUpgrades,
                   friends, friendsId, scanPackPurchases,
                   originalTransactionId>>

\* the identification, the storing of the car or a statement of
\* DeductScanCredit returns an error: ScanImage returns it
ScanFail(p) ==
    /\ resp = NoResp
    /\ proc[p].pc \in {"sc_deduct", "sc_insert"}
    /\ resp' = CreditResponse("scan", proc[p].user, "none", "ScanError")
    /\ proc' = [proc EXCEPT ![p] = Idle]
    /\ UNCHANGED <<owner, trades, nextId, feed, subs, currency>>
    /\ UNCHANGED serviceVars

\* INSERT INTO user_subscriptions (user_id, scan_credits_remaining, ...)
\* VALUES ($1, product.ScanCredits, ...) ON CONFLICT (user_id) DO UPDATE SET
\* scan_credits_remaining = user_subscriptions.scan_credits_remaining +
\* product.ScanCredits
AddScanCredits(userID, product) ==
    IF userID \in DOMAIN credits
    THEN [credits EXCEPT ![userID] = @ + ScanCredits(product)]
    ELSE (userID :> ScanCredits(product)) @@ credits

\* the App Store transactions clients submit: a scan pack and the first
\* transaction of a subscription (its own original transaction)
Receipts == { [id |-> 1, original |-> 1, product |-> "tencredits"],
              [id |-> 2, original |-> 2, product |-> "basic"] }

\* a request slot that serves ProcessPurchase: the verified transaction, the
\* credits read, and the rows its open transaction has written
PurchaseRequest(pc, userID, tx) ==
    [pc |-> pc, op |-> "purchase", user |-> userID, transaction |-> tx,
     currentCredits |-> 0, wPack |-> {}, wCredits |-> EmptyFn]

\* PurchaseResponse, with the scan credit rows as they were before the
\* returning step
PurchaseResponse(userID, tx, res) ==
    [op |-> "purchase", user |-> userID, product |-> tx.product,
     transaction |-> tx, res |-> res, credits0 |-> credits]

\* the purchases of a user that are processed or being processed
PurchasesOf(userID) ==
    Len(purchased[userID])
    + Cardinality({q \in Procs : /\ proc[q].op = "purchase"
                                 /\ proc[q].user = userID})

\* a row of scan_pack_purchases with this transaction_id is being inserted
\* by the open transaction of another request
PackLocked(p, id) ==
    \E q \in Procs \ {p} : proc[q].op = "purchase" /\ id \in proc[q].wPack

\* the response reports a failure; no transaction is left open
PurchaseRefused(userID, tx, res) ==
    /\ resp' = PurchaseResponse(userID, tx, res)
    /\ proc' = proc

\* ProcessPurchase with purchase_type "scanpack": processApplePurchase
\* compares product.Type; processScanPack: Begin; SELECT EXISTS (SELECT 1
\* FROM scan_pack_purchases WHERE transaction_id = $1)
ProcessScanPack(p, userID, tx) ==
    /\ Free(p)
    /\ PurchasesOf(userID) < MaxPurchases
    /\ IF ProductType(tx.product) # "scanpack"
       THEN PurchaseRefused(userID, tx, "TypeMismatch")
       ELSE IF tx.id \in scanPackPurchases
       THEN PurchaseRefused(userID, tx, "Duplicate")
       ELSE /\ proc' = [proc EXCEPT ![p] =
                           PurchaseRequest("pp_insert", userID, tx)]
            /\ resp' = NoResp
    /\ UNCHANGED <<owner, trades, nextId, feed, subs, currency>>
    /\ UNCHANGED serviceVars

\* INSERT INTO scan_pack_purchases (..., transaction_id, ...): it waits for
\* the transaction that is inserting the same transaction_id, and fails on
\* the UNIQUE constraint if the row is committed
ScanPackInsert(p) ==
    /\ resp = NoResp
    /\ proc[p].pc = "pp_insert"
    /\ ~PackLocked(p, proc[p].transaction.id)
    /\ IF proc[p].transaction.id \in scanPackPurchases
       THEN /\ resp' = PurchaseResponse(proc[p].user, proc[p].transaction,
                                        "StoreError")
            /\ proc' = [proc EXCEPT ![p] = Idle]
       ELSE /\ proc' = [proc EXCEPT ![p].pc = "pp_credits",
                                    ![p].wPack = {proc[p].transaction.id}]
            /\ resp' = NoResp
    /\ UNCHANGED <<owner, trades, nextId, feed, subs, currency>>
    /\ UNCHANGED serviceVars

\* the upsert of AddScanCredits in the transaction: it waits for the
\* transaction that holds the user's row
ScanPackCredits(p) ==
    /\ resp = NoResp
    /\ proc[p].pc = "pp_credits"
    /\ ~CreditLocked(p, proc[p].user)
    /\ LET userID == proc[p].user
           product == proc[p].transaction.product
       IN proc' = [proc EXCEPT
              ![p].pc = "p_commit",
              ![p].wCredits = (userID :> AddScanCredits(userID,
                                                        product)[userID])]
    /\ resp' = NoResp
    /\ UNCHANGED <<owner, trades, nextId, feed, subs, currency>>
    /\ UNCHANGED serviceVars

\* ProcessPurchase with purchase_type "subscription": processApplePurchase
\* compares product.Type; processSubscription: Begin; SELECT id FROM
\* user_subscriptions WHERE user_id = $1 AND original_transaction_id = $2
ProcessSubscription(p, userID, tx) ==
    /\ Free(p)
    /\ PurchasesOf(userID) < MaxPurchases
    /\ IF ProductType(tx.product) # "subscription"
       THEN PurchaseRefused(userID, tx, "TypeMismatch")
       ELSE /\ proc' = [proc EXCEPT ![p] =
                 PurchaseRequest(
                     IF /\ userID \in DOMAIN credits
                        /\ originalTransactionId[userID] = tx.original
                     THEN "ps_credits" ELSE "ps_insert",
                     userID, tx)]
            /\ resp' = NoResp
    /\ UNCHANGED <<owner, trades, nextId, feed, subs, currency>>
    /\ UNCHANGED serviceVars

\* the row is found: SELECT scan_credits_remaining FROM user_subscriptions
\* WHERE id = $1
SubscriptionCredits(p) ==
    /\ resp = NoResp
    /\ proc[p].pc = "ps_credits"
    /\ proc' = [proc EXCEPT ![p].pc = "ps_update",
                            ![p].currentCredits = credits[proc[p].user]]
    /\ resp' = NoResp
    /\ UNCHANGED <<owner, trades, nextId, feed, subs, currency>>
    /\ UNCHANGED serviceVars

\* UPDATE user_subscriptions SET is_active = true, ...,
\* scan_credits_remaining = currentCredits + product.ScanCredits WHERE id
SubscriptionUpdate(p) ==
    /\ resp = NoResp
    /\ proc[p].pc = "ps_update"
    /\ ~CreditLocked(p, proc[p].user)
    /\ proc' = [proc EXCEPT
           ![p].pc = "p_commit",
           ![p].wCredits =
               (proc[p].user :>
                    proc[p].currentCredits
                    + ScanCredits(proc[p].transaction.product))]
    /\ resp' = NoResp
    /\ UNCHANGED <<owner, trades, nextId, feed, subs, currency>>
    /\ UNCHANGED serviceVars

\* no row is found: INSERT INTO user_subscriptions ... ON CONFLICT (user_id)
\* DO UPDATE SET ..., scan_credits_remaining =
\* user_subscriptions.scan_credits_remaining + $5
SubscriptionInsert(p) ==
    /\ resp = NoResp
    /\ proc[p].pc = "ps_insert"
    /\ ~CreditLocked(p, proc[p].user)
    /\ LET userID == proc[p].user
           product == proc[p].transaction.product
       IN proc' = [proc EXCEPT
              ![p].pc = "p_commit",
              ![p].wCredits = (userID :> AddScanCredits(userID,
                                                        product)[userID])]
    /\ resp' = NoResp
    /\ UNCHANGED <<owner, trades, nextId, feed, subs, currency>>
    /\ UNCHANGED serviceVars

\* tx.Commit of processScanPack or processSubscription; the response
\* reports success
PurchaseCommit(p) ==
    /\ resp = NoResp
    /\ proc[p].pc = "p_commit"
    /\ LET userID == proc[p].user
           tx == proc[p].transaction
       IN /\ credits' = proc[p].wCredits @@ credits
          /\ scanPackPurchases' = scanPackPurchases \cup proc[p].wPack
          /\ purchased' = [purchased EXCEPT ![userID] = Append(@, tx.product)]
          /\ IF ProductType(tx.product) = "subscription"
             THEN /\ subs' = subs \cup {userID}
                  /\ originalTransactionId' =
                         [originalTransactionId EXCEPT ![userID] = tx.original]
             ELSE UNCHANGED <<subs, originalTransactionId>>
          /\ resp' = PurchaseResponse(userID, tx, "ok")
    /\ proc' = [proc EXCEPT ![p] = Idle]
    /\ UNCHANGED <<owner, trades, nextId, feed, currency>>
    /\ UNCHANGED <<refreshTokens, jwts, clientTokens, scans, images,
                   carUpgrades, friends, friendsId>>

\* a statement, or the commit, of the purchase returns an error: the
\* response reports the failure and the deferred Rollback discards the
\* writes
PurchaseFail(p) ==
    /\ resp = NoResp
    /\ proc[p].pc \in {"pp_insert", "pp_credits", "ps_credits", "ps_update",
                       "ps_insert", "p_commit"}
    /\ resp' = PurchaseResponse(proc[p].user, proc[p].transaction,
                                "StoreError")
    /\ proc' = [proc EXCEPT ![p] = Idle]
    /\ UNCHANGED <<owner, trades, nextId, feed, subs, currency>>
    /\ UNCHANGED serviceVars

\* ---------------------------------------------------------- image upgrades

\* the value returned to the caller of UpgradeCarImage or RevertCarImage,
\* with the tables as they were before the call
ImageResponse(op, userID, userCarID, res) ==
    [op |-> op, user |-> userID, car |-> userCarID, res |-> res,
     images0 |-> images, upgrades0 |-> carUpgrades, currency0 |-> currency]

\* relativeHighResPath, relativeLowResPath: generated/car_<id>/premium/
\* <user>/premium_<background>_<timestamp>.jpg, a new name at every call
PremiumImages(userID) == <<"premium", userID, Len(carUpgrades) + 1>>

\* INSERT INTO car_upgrades (user_car_id, upgrade_type, metadata): active by
\* default, the metadata holds the premium paths and the current paths of
\* the car as original_high_res, original_low_res
UpgradeRow(userCarID, premium, current) ==
    [car |-> userCarID, active |-> TRUE, premium |-> premium,
     original |-> current]

\* the call ends with an error before its first UPDATE
ImageError(op, userID, userCarID, res) ==
    /\ resp' = ImageResponse(op, userID, userCarID, res)
    /\ UNCHANGED <<currency, images, carUpgrades>>

\* UpgradeCarImage(userID, userCarID), one transaction
UpgradeCarImage(userID, userCarID) ==
    /\ resp = NoResp
    /\ IF owner[userCarID] # userID
       THEN ImageError("upgrade", userID, userCarID, "NotFound")
       ELSE IF ~HasActiveSubscription(userID)
       THEN ImageError("upgrade", userID, userCarID, "NoSubscription")
       ELSE IF currency[userID] < UpgradeCost
       THEN ImageError("upgrade", userID, userCarID, "InsufficientCurrency")
       ELSE /\ currency' = [currency EXCEPT ![userID] = @ - UpgradeCost]
            /\ images' = [images EXCEPT ![userCarID] = PremiumImages(userID)]
            /\ carUpgrades' = Append(carUpgrades,
                                     UpgradeRow(userCarID,
                                                PremiumImages(userID),
                                                images[userCarID]))
            /\ resp' = ImageResponse("upgrade", userID, userCarID, "ok")
    /\ UNCHANGED <<owner, trades, nextId, feed, subs, proc>>
    /\ UNCHANGED <<refreshTokens, jwts, clientTokens, credits, scans,
                   purchased,
                   friends, friendsId, scanPackPurchases,
                   originalTransactionId>>

\* the rows WHERE user_car_id = $1 AND upgrade_type = 'premium_image' AND
\* active = true
ActiveUpgrades(rows, userCarID) ==
    {i \in 1..Len(rows) : rows[i].car = userCarID /\ rows[i].active}

\* ... ORDER BY created_at DESC LIMIT 1
LatestActiveUpgrade(rows, userCarID) ==
    CHOOSE i \in ActiveUpgrades(rows, userCarID) :
        \A j \in ActiveUpgrades(rows, userCarID) : i >= j

\* UPDATE car_upgrades SET active = false WHERE user_car_id = $1 AND
\* upgrade_type = 'premium_image' AND active = true
Deactivated(rows, userCarID) ==
    [i \in 1..Len(rows) |->
        IF rows[i].car = userCarID THEN [rows[i] EXCEPT !.active = FALSE]
        ELSE rows[i]]

\* RevertCarImage(userID, userCarID), one transaction
RevertCarImage(userID, userCarID) ==
    /\ resp = NoResp
    /\ IF ActiveUpgrades(carUpgrades, userCarID) = {}
       THEN IF owner[userCarID] # userID
            THEN ImageError("revert", userID, userCarID, "NotFound")
            ELSE ImageError("revert", userID, userCarID, "NoUpgrade")
       ELSE IF owner[userCarID] # userID
       THEN ImageError("revert", userID, userCarID, "NotFound")
       ELSE /\ images' = [images EXCEPT ![userCarID] =
                 carUpgrades[LatestActiveUpgrade(carUpgrades,
                                                 userCarID)].original]
            /\ carUpgrades' = Deactivated(carUpgrades, userCarID)
            /\ resp' = ImageResponse("revert", userID, userCarID, "ok")
            /\ UNCHANGED currency
    /\ UNCHANGED <<owner, trades, nextId, feed, subs, proc>>
    /\ UNCHANGED <<refreshTokens, jwts, clientTokens, credits, scans,
                   purchased,
                   friends, friendsId, scanPackPurchases,
                   originalTransactionId>>

\* the image generation, a statement or the commit returns an error: the
\* deferred Rollback discards the transaction
ImageFail(op, userID, userCarID) ==
    /\ resp = NoResp
    /\ owner[userCarID] = userID
    /\ ImageError(op, userID, userCarID, "StoreError")
    /\ UNCHANGED <<owner, trades, nextId, feed, subs, proc>>
    /\ UNCHANGED <<refreshTokens, jwts, clientTokens, credits, scans,
                   purchased,
                   friends, friendsId, scanPackPurchases,
                   originalTransactionId>>

\* --------------------------------------------------------- friend requests

\* a request slot that serves HandleFriendRequestResponse
FriendRequest(pc, userID, requestID, response, from, to) ==
    [pc |-> pc, op |-> "respond", user |-> userID, request |-> requestID,
     response |-> response, from |-> from, to |-> to]

\* the value returned to the caller of a friends handler, with table
\* friends as it was before the returning step
FriendResponse(op, userID, requestID, response, res) ==
    [op |-> op, user |-> userID, request |-> requestID,
     response |-> response, res |-> res, friends0 |-> friends]

\* UNIQUE (user_id, friend_id)
FriendConflict(userID, friendID) ==
    \E id \in DOMAIN friends :
        friends[id].user = userID /\ friends[id].friend = friendID

\* HandleSendFriendRequest, SendFriendRequest: INSERT INTO friends (user_id,
\* friend_id, status) VALUES ($1, $2, 'pending') ON CONFLICT (user_id,
\* friend_id) DO NOTHING; the row takes its id from the sequence before the
\* constraints are looked at, and no_self_friendship fails the INSERT
SendFriendRequest(userID, friendID) ==
    /\ resp = NoResp
    /\ friendsId <= MaxRequests
    /\ friendsId' = friendsId + 1
    /\ IF userID = friendID
       THEN /\ friends' = friends
            /\ resp' = FriendResponse("send", userID, 0, "none", "StoreError")
       ELSE IF FriendConflict(userID, friendID)
       THEN /\ friends' = friends
            /\ resp' = FriendResponse("send", userID, 0, "none", "ok")
       ELSE /\ friends' = (friendsId :> [user |-> userID, friend |-> friendID,
                                         status |-> "pending"]) @@ friends
            /\ resp' = FriendResponse("send", userID, friendsId, "none", "ok")
    /\ UNCHANGED <<owner, trades, nextId, feed, subs, currency, proc>>
    /\ UNCHANGED <<refreshTokens, jwts, clientTokens, credits, scans,
                   purchased, images, carUpgrades, scanPackPurchases,
                   originalTransactionId>>

\* UPDATE friends SET status = $2 WHERE id = $1
WithFriendStatus(requestID, status) ==
    IF requestID \in DOMAIN friends
    THEN [friends EXCEPT ![requestID].status = status]
    ELSE friends

\* HandleFriendRequestResponse of the authenticated user userID (the
\* handler does not read the user of the context).  "accept":
\* AcceptFriendRequest selects user_id, friend_id of the row, updates its
\* status and commits, and goes on to CreateFeed.  "reject":
\* RejectFriendRequest, one UPDATE on the pool whose row count is not
\* looked at.  Any other response is a bad request.
HandleFriendRequestResponse(p, userID, requestID, response) ==
    /\ Free(p)
    /\ IF response = "accept"
       THEN IF requestID \notin DOMAIN friends
            THEN /\ resp' = FriendResponse("respond", userID, requestID,
                                           response, "StoreError")
                 /\ UNCHANGED <<friends, proc>>
            ELSE /\ friends' = WithFriendStatus(requestID, "accepted")
                 /\ proc' = [proc EXCEPT ![p] =
                        FriendRequest("f_feed", userID, requestID, response,
                                      friends[requestID].user,
                                      friends[requestID].friend)]
                 /\ resp' = NoResp
       ELSE IF response = "reject"
       THEN /\ friends' = WithFriendStatus(requestID, "rejected")
            /\ resp' = FriendResponse("respond", userID, requestID, response,
                                      "ok")
            /\ proc' = proc
       ELSE /\ resp' = FriendResponse("respond", userID, requestID, response,
                                      "BadRequest")
            /\ UNCHANGED <<friends, proc>>
    /\ UNCHANGED <<owner, trades, nextId, feed, subs, currency>>
    /\ UNCHANGED <<refreshTokens, jwts, clientTokens, credits, scans,
                   purchased, images, carUpgrades, friendsId,
                   scanPackPurchases, originalTransactionId>>

\* s.feed.CreateFeed(ctx, userID, "friend_accepted", requestID, friendID)
\* after the commit; return nil
FriendFeed(p) ==
    /\ resp = NoResp
    /\ proc[p].pc = "f_feed"
    /\ BagCardinality(feed) < MaxFeed
    /\ feed' = feed (+) SetToBag({FeedRow(proc[p].from, "friend_accepted",
                                          proc[p].request, proc[p].to)})
    /\ resp' = FriendResponse("respond", proc[p].user, proc[p].request,
                              proc[p].response, "ok")
    /\ proc' = [proc EXCEPT ![p] = Idle]
    /\ UNCHANGED <<owner, trades, nextId, subs, currency>>
    /\ UNCHANGED serviceVars

\* CreateFeed returns an error: AcceptFriendRequest returns it, the
\* accepted status stays committed
FriendFeedFail(p) ==
    /\ resp = NoResp
    /\ proc[p].pc = "f_feed"
    /\ resp' = FriendResponse("respond", proc[p].user, proc[p].request,
                              proc[p].response, "FeedError")
    /\ proc' = [proc EXCEPT ![p] = Idle]
    /\ UNCHANGED <<owner, trades, nextId, feed, subs, currency>>
    /\ UNCHANGED serviceVars

\* ---------------------------------------------------------- specifications

TradeIds == 1..MaxTrades

\* the sales (user, car) clients ask for
Sales == { <<1, 1>> }

\* the users whose subscription lapses or is bought during a run
Lapsing == {2}

TradeStep(p) ==
    \/ \E o \in Offers : CreateTrade(p, o[1], o[2], o[3], o[4])
    \/ CreateCheckTo(p)
    \/ CreateExists(p)
    \/ CreateVerifyFrom(p)
    \/ CreateVerifyTo(p)
    \/ CreateInsert(p)
    \/ CreateCommit(p)
    \/ \E user \in Users, tid \in TradeIds : AcceptTrade(p, user, tid)
    \/ AcceptVerifyFrom(p)
    \/ AcceptVerifyTo(p)
    \/ AcceptUpdateFrom(p)
    \/ AcceptUpdateTo(p)
    \/ AcceptStatus(p)
    \/ AcceptDecline(p)
    \/ AcceptFeed(p)
    \/ FeedFail(p)
    \/ AcceptCommit(p)
    \/ \E user \in Users, tid \in TradeIds : DeclineTrade(p, user, tid)
    \/ TxFail(p)

SellStep(p) ==
    \/ \E o \in Sales : SellCar(p, o[1], o[2])
    \/ SellCurrency(p)
    \/ SellOwner(p)
    \/ SellCommit(p)

SubscriptionStep ==
    \E u \in Lapsing : Expire(u) \/ Subscribe(u)

\* the caller has the response of the request that returned
Ack ==
    /\ resp # NoResp
    /\ resp' = NoResp
    /\ UNCHANGED <<owner, trades, nextId, feed, subs, currency, proc>>
    /\ UNCHANGED serviceVars

\* the trade operations, served concurrently
Next ==
    \/ \E p \in Procs : TradeStep(p)
    \/ Ack

Spec == Init /\ [][Next]_vars

\* the trade operations and SellCar
SaleNext ==
    \/ \E p \in Procs : TradeStep(p)
    \/ \E p \in Procs : SellStep(p)
    \/ Ack

SaleSpec == Init /\ [][SaleNext]_vars

\* the trade operations while subscriptions lapse and are bought
GateNext ==
    \/ \E p \in Procs : TradeStep(p)
    \/ SubscriptionStep
    \/ Ack

GateSpec == Init /\ [][GateNext]_vars

\* the pages (page, page_size) clients ask for
Pages == {<<1, 1>>, <<2, 1>>, <<3, 1>>, <<1, 2>>, <<2, 2>>}

\* a trades table of up to MaxTrades rows of distinct offers, each with the
\* instant of its insertion
HistoryInit ==
    /\ \E n \in 0..MaxTrades :
          \E offer \in [1..n -> Offers], at \in [1..n -> Instants] :
              /\ \A i, j \in 1..n : i # j => offer[i] # offer[j]
              /\ trades = [t \in 1..n |->
                              HistoryRow(offer[t][1], offer[t][2], offer[t][3],
                                         offer[t][4], at[t])]
              /\ nextId = n + 1
    /\ owner = InitOwner
    /\ feed = EmptyBag
    /\ subs = Users
    /\ currency = [u \in Users |-> 0]
    /\ proc = [p \in Procs |-> Idle]
    /\ resp = NoResp
    /\ refreshTokens = EmptyFn
    /\ jwts = 0
    /\ clientTokens = {}
    /\ credits = [u \in Users |-> ScanCredits("basic")]
    /\ scans = [u \in Users |-> 0]
    /\ purchased = [u \in Users |-> <<"basic">>]
    /\ images = [c \in Cars |-> OriginalImages(c)]
    /\ carUpgrades = <<>>
    /\ friends = EmptyFn
    /\ friendsId = 1
    /\ scanPackPurchases = {}
    /\ originalTransactionId = [u \in Users |-> NoTransaction]

\* the trade history, read page by page
HistoryNext ==
    \/ \E userID \in Users, pg \in Pages : GetUserTrades(userID, pg[1], pg[2])
    \/ Ack

HistorySpec == HistoryInit /\ [][HistoryNext]_vars

\* the refresh token strings a request may carry
TokenStrings == 0..MaxTokens

TokenStep(p) ==
    \/ \E token \in TokenStrings : RefreshTokens(p, token)
    \/ RefreshDelete(p)
    \/ RefreshStore(p)
    \/ RefreshStoreFail(p)
    \/ RefreshCommit(p)
    \/ \E token \in TokenStrings : Logout(p, token)
    \/ LogoutDelete(p)
    \/ LogoutCommit(p)
    \/ TokenFail(p)

\* sign-in, token refresh and logout, served concurrently, while tokens
\* expire
TokenNext ==
    \/ \E userID \in SignedIn : SignIn(userID)
    \/ \E token \in TokenStrings : TokenExpire(token)
    \/ \E p \in Procs : TokenStep(p)
    \/ Ack

TokenSpec == Init /\ [][TokenNext]_vars

RefreshStep(p) ==
    \/ \E token \in TokenStrings : RefreshTokens(p, token)
    \/ RefreshDelete(p)
    \/ RefreshStore(p)
    \/ RefreshStoreFail(p)
    \/ RefreshCommit(p)
    \/ TokenFail(p)

\* sign-in and token refresh, served concurrently
RefreshNext ==
    \/ \E userID \in SignedIn : SignIn(userID)
    \/ \E p \in Procs : RefreshStep(p)
    \/ Ack

RefreshSpec == Init /\ [][RefreshNext]_vars

\* new users: no row in user_subscriptions, nothing scanned or bought
ScanInit ==
    /\ owner = InitOwner
    /\ trades = EmptyFn
    /\ nextId = 1
    /\ feed = EmptyBag
    /\ subs = {}
    /\ currency = [u \in Users |-> 0]
    /\ proc = [p \in Procs |-> Idle]
    /\ resp = NoResp
    /\ refreshTokens = EmptyFn
    /\ jwts = 0
    /\ clientTokens = {}
    /\ credits = EmptyFn
    /\ scans = [u \in Users |-> 0]
    /\ purchased = [u \in Users |-> <<>>]
    /\ images = [c \in Cars |-> OriginalImages(c)]
    /\ carUpgrades = <<>>
    /\ friends = EmptyFn
    /\ friendsId = 1
    /\ scanPackPurchases = {}
    /\ originalTransactionId = [u \in Users |-> NoTransaction]

PurchaseStep(p) ==
    \/ \E userID \in Scanners, tx \in Receipts : ProcessScanPack(p, userID, tx)
    \/ ScanPackInsert(p)
    \/ ScanPackCredits(p)
    \/ \E userID \in Scanners, tx \in Receipts :
          ProcessSubscription(p, userID, tx)
    \/ SubscriptionCredits(p)
    \/ SubscriptionUpdate(p)
    \/ SubscriptionInsert(p)
    \/ PurchaseCommit(p)
    \/ PurchaseFail(p)

ScanStep(p) ==
    \/ \E userID \in Scanners : ScanImage(p, userID)
    \/ ScanDeduct(p)
    \/ ScanInsert(p)
    \/ ScanFail(p)

\* scans, served concurrently, and purchases
ScanNext ==
    \/ \E p \in Procs : ScanStep(p)
    \/ \E p \in Procs : PurchaseStep(p)
    \/ Ack

ScanSpec == ScanInit /\ [][ScanNext]_vars

\* the (user, car) pairs of the image requests
ImageRequests == {<<1, 1>>, <<1, 2>>, <<2, 3>>, <<2, 1>>}

\* user 1 holds the currency of three upgrades, user 2 holds none; user 3
\* has no active subscription
ImageInit ==
    /\ owner = InitOwner
    /\ trades = EmptyFn
    /\ nextId = 1
    /\ feed = EmptyBag
    /\ subs = {1, 2}
    /\ currency = [u \in Users |-> IF u = 1 THEN 3 * UpgradeCost ELSE 0]
    /\ proc = [p \in Procs |-> Idle]
    /\ resp = NoResp
    /\ refreshTokens = EmptyFn
    /\ jwts = 0
    /\ clientTokens = {}
    /\ credits = [u \in {1, 2} |-> ScanCredits("basic")]
    /\ scans = [u \in Users |-> 0]
    /\ purchased = [u \in Users |-> IF u = 3 THEN <<>> ELSE <<"basic">>]
    /\ images = [c \in Cars |-> OriginalImages(c)]
    /\ carUpgrades = <<>>
    /\ friends = EmptyFn
    /\ friendsId = 1
    /\ scanPackPurchases = {}
    /\ originalTransactionId = [u \in Users |-> NoTransaction]

\* image upgrades and reverts
ImageNext ==
    \/ \E r \in ImageRequests : UpgradeCarImage(r[1], r[2])
    \/ \E r \in ImageRequests : RevertCarImage(r[1], r[2])
    \/ \E r \in ImageRequests, op \in {"upgrade", "revert"} :
          ImageFail(op, r[1], r[2])
    \/ Ack

ImageSpec == ImageInit /\ [][ImageNext]_vars

\* the friend request ids and the response strings clients send
RequestIds == 1..MaxRequests

Responses == {"accept", "reject", "block"}

FriendStep(p) ==
    \/ \E userID \in Users, requestID \in RequestIds, response \in Responses :
          HandleFriendRequestResponse(p, userID, requestID, response)
    \/ FriendFeed(p)
    \/ FriendFeedFail(p)

\* friend requests and the responses to them, served concurrently
FriendNext ==
    \/ \E userID \in Users, friendID \in Users :
          SendFriendRequest(userID, friendID)
    \/ \E p \in Procs : FriendStep(p)
    \/ Ack

FriendSpec == Init /\ [][FriendNext]_vars

\* trade requests of which two share no item
DisjointOffers == { <<1, 3, <<1>>, <<>> >>,
                    <<2, 1, <<3>>, <<>> >>,
                    <<1, 2, <<1, 2>>, <<3>> >> }

ResolverStep(p) ==
    \/ \E o \in DisjointOffers : CreateTrade(p, o[1], o[2], o[3], o[4])
    \/ CreateCheckTo(p)
    \/ CreateExists(p)
    \/ CreateVerifyFrom(p)
    \/ CreateVerifyTo(p)
    \/ CreateInsert(p)
    \/ CreateCommit(p)
    \/ \E user \in Users, tid \in TradeIds : AcceptTrade(p, user, tid)
    \/ AcceptVerifyFrom(p)
    \/ AcceptVerifyTo(p)
    \/ AcceptUpdateFrom(p)
    \/ AcceptUpdateTo(p)
    \/ AcceptStatus(p)
    \/ AcceptDecline(p)
    \/ AcceptFeed(p)
    \/ FeedFail(p)
    \/ AcceptCommit(p)
    \/ \E user \in Users, tid \in TradeIds : DeclineTrade(p, user, tid)
    \/ TxFail(p)

\* the trade operations on offers that do not all conflict
ResolverNext ==
    \/ \E p \in Procs : ResolverStep(p)
    \/ Ack

ResolverSpec == Init /\ [][ResolverNext]_vars

\* ------------------------------------------------------------ properties

\* user u gives car c in the trade row
Gives(row, u, c) ==
    \/ u = row.from /\ c \in Range(row.fromItems)
    \/ u = row.to /\ c \in Range(row.toItems)

Items(row) == Range(row.fromItems) \cup Range(row.toItems)

\* an AcceptTrade call has just returned nil
Accepted == resp.op = "accept" /\ resp.res = "ok"

\* C1: no item is transferred twice by two different accepted trades: when
\* an AcceptTrade commits, every item its trade shares, offered by the same
\* owner, with another trade that is already accepted is owned by that owner
\* again (it legitimately moved back); otherwise only one of the two trades
\* reaches status accepted.
C1_NoDoubleTransfer ==
    Accepted =>
        \A t1 \in DOMAIN resp.trades0 \ {resp.tid} :
            resp.trades0[t1].status = "accepted" =>
                \A c \in Cars, u \in Users :
                    /\ Gives(resp.trades0[t1], u, c)
                    /\ Gives(trades[resp.tid], u, c)
                    => resp.owner0[c] = u

\* two accepted trades gave away the same car of the same owner: the second
\* acceptance committed while the car was with the first recipient, after
\* the first acceptance had declined its trade
C1_Witness ==
    /\ Accepted
    /\ \E t1 \in DOMAIN resp.trades0 \ {resp.tid} :
        /\ resp.trades0[t1].status = "accepted"
        /\ resp.trades0[resp.tid].status = "declined"
        /\ trades[resp.tid].status = "accepted"
        /\ \E c \in Cars, u \in Users :
            /\ Gives(resp.trades0[t1], u, c)
            /\ Gives(trades[resp.tid], u, c)
            /\ resp.owner0[c] # u

\* C2: once the status of a trade is accepted or declined it never changes
\* again, whatever CreateTrade, AcceptTrade, DeclineTrade and the conflict
\* resolver do and however they interleave.
C2_TerminalStatus ==
    [][\A t \in DOMAIN trades :
          trades[t].status \in {"accepted", "declined"}
          => trades'[t].status = trades[t].status]_vars

\* a committed declined trade is committed as accepted by an AcceptTrade
C2_Witness ==
    /\ Accepted
    /\ resp.tid \in DOMAIN resp.trades0
    /\ resp.trades0[resp.tid].status = "declined"
    /\ trades[resp.tid].status = "accepted"

\* the owners after the trade row has been carried out on the owners own0
Carried(own0, row) ==
    [c \in Cars |-> IF c \in Range(row.toItems) THEN row.from
                    ELSE IF c \in Range(row.fromItems) THEN row.to
                    ELSE own0[c]]

\* C3: AcceptTrade transfers all items of fromItems and toItems or none:
\* the committed owners change only in the step in which an AcceptTrade
\* returns nil, and then every item of the trade changes hands at once; a
\* failed or interrupted AcceptTrade leaves every owner as it was.
C3_AllOrNone ==
    [][owner' # owner =>
          /\ resp'.op = "accept"
          /\ resp'.res = "ok"
          /\ owner' = Carried(owner, trades'[resp'.tid])]_vars

\* an AcceptTrade of a trade with several items on one side and an item on
\* the other has committed, and all of them have changed hands
C3_Witness ==
    /\ Accepted
    /\ Len(resp.fl) >= 2
    /\ Len(resp.tl) >= 1
    /\ owner = Carried(resp.owner0, trades[resp.tid])
    /\ owner # resp.owner0

\* the trade row is pending and its items are with the parties that offer
\* them
Acceptable(own0, row) ==
    /\ row.status = "pending"
    /\ \A c \in Range(row.fromItems) : own0[c] = row.from
    /\ \A c \in Range(row.toItems) : own0[c] = row.to

\* C4: when the recipient accepts a pending trade whose items are all still
\* owned by the offering parties, AcceptTrade succeeds (unless the store
\* fails), and afterwards every item of fromItems is owned by toUser, every
\* item of toItems by fromUser, the status is accepted and tradedAt is set.
C4_AcceptSucceeds ==
    /\ resp.op = "accept"
    /\ resp.tid \in DOMAIN resp.trades0
    /\ resp.user = resp.trades0[resp.tid].to
    /\ Acceptable(resp.owner0, resp.trades0[resp.tid])
    => /\ resp.res \in {"ok", "StoreError", "FeedError"}
       /\ resp.res = "ok" =>
            /\ \A c \in Range(trades[resp.tid].fromItems) :
                    owner[c] = trades[resp.tid].to
            /\ \A c \in Range(trades[resp.tid].toItems) :
                    owner[c] = trades[resp.tid].from
            /\ trades[resp.tid].status = "accepted"
            /\ trades[resp.tid].tradedAt

\* the recipient accepted a pending trade with items on both sides that
\* were all with their offering parties, and the call returned nil
C4_Witness ==
    /\ Accepted
    /\ resp.tid \in DOMAIN resp.trades0
    /\ resp.user = resp.trades0[resp.tid].to
    /\ Acceptable(resp.owner0, resp.trades0[resp.tid])
    /\ resp.fl # <<>>
    /\ resp.tl # <<>>

\* C5: immediately after AcceptTrade(T) commits, every trade other than T
\* that was pending and whose fromItems or toItems intersect the items of T
\* has status declined.
C5_ConflictsDeclined ==
    Accepted =>
        \A t \in DOMAIN resp.trades0 \ {resp.tid} :
            /\ resp.trades0[t].status = "pending"
            /\ Items(resp.trades0[t]) \cap Items(trades[resp.tid]) # {}
            => trades[t].status = "declined"

\* an AcceptTrade has committed and a trade that was pending and lists one
\* of its items is still pending
C5_Witness ==
    /\ Accepted
    /\ \E t \in DOMAIN resp.trades0 \ {resp.tid} :
        /\ resp.trades0[t].status = "pending"
        /\ Items(resp.trades0[t]) \cap Items(trades[resp.tid]) # {}
        /\ trades[t].status = "pending"

\* C6: with only the trade operations running, no committed state holds an
\* item already moved by an accepted trade together with another trade that
\* lists that item and is still pending: the items of every pending trade
\* that an accepted trade has moved are with the party that offers them.
C6_NoStalePending ==
    \A t \in DOMAIN trades, t2 \in DOMAIN trades :
        /\ t # t2
        /\ trades[t].status = "accepted"
        /\ trades[t2].status = "pending"
        => \A c \in Items(trades[t]) \cap Items(trades[t2]), u \in Users :
              Gives(trades[t2], u, c) => owner[c] = u

\* a committed state, left by a CreateTrade that ran concurrently with an
\* acceptance, in which a pending trade offers a car that the accepted
\* trade has moved away from its offering party
C6_Witness ==
    /\ resp.op = "create"
    /\ resp.res = "ok"
    /\ resp.tid \in DOMAIN trades
    /\ trades[resp.tid].status = "pending"
    /\ \E t \in DOMAIN trades \ {resp.tid} :
        /\ trades[t].status = "accepted"
        /\ \E c \in Items(trades[t]) \cap Items(trades[resp.tid]) :
              \E u \in Users : Gives(trades[resp.tid], u, c) /\ owner[c] # u

\* the car, and the party that has to own it, that the next statement of
\* the ownership verification of request p looks at
CheckedCar(p) ==
    IF proc[p].pc = "a_vfrom" THEN proc[p].fl[proc[p].i]
    ELSE proc[p].tl[proc[p].i]

CheckedParty(p) ==
    IF proc[p].pc = "a_vfrom" THEN proc[p].from ELSE proc[p].to

\* C7: if an item listed in a pending trade changed owner (was sold or
\* transferred) after the trade was created, a later AcceptTrade on that
\* trade fails with the not-owned error, moves no item and leaves the trade
\* pending: the statement of its ownership verification that finds the item
\* with another owner ends the call with that error (or the store fails),
\* and no owner and no trade changes.
C7_ChangedOwnerNotOwned ==
    [][\A p \in Procs :
          /\ proc[p].op = "accept"
          /\ proc[p].pc \in {"a_vfrom", "a_vto"}
          /\ proc'[p] # proc[p]
          /\ owner[CheckedCar(p)] # CheckedParty(p)
          => /\ resp'.op = "accept"
             /\ resp'.tid = proc[p].tid
             /\ resp'.res \in {"NotOwned", "StoreError"}
             /\ owner' = owner
             /\ trades' = trades]_vars

\* the recipient's AcceptTrade of a pending trade, one of whose cars was
\* sold after the trade was created, returned not-owned and the trade is
\* still pending
C7_Witness ==
    /\ resp.op = "accept"
    /\ resp.res = "NotOwned"
    /\ resp.tid \in DOMAIN trades
    /\ trades[resp.tid].status = "pending"
    /\ resp.user = trades[resp.tid].to
    /\ \E c \in Range(trades[resp.tid].fromItems) : owner[c] = SystemUser
    /\ owner = resp.owner0
    /\ trades = resp.trades0

\* C8: AcceptTrade(respondingUser, tradeID) succeeds only if respondingUser
\* is the trade's toUser; for any other user it returns the not-recipient
\* error and changes no item owner and no trade status.
C8_OnlyRecipient ==
    resp.op = "accept" /\ resp.tid \in DOMAIN resp.trades0 =>
        /\ resp.res = "ok" => resp.user = resp.trades0[resp.tid].to
        /\ resp.user # resp.trades0[resp.tid].to =>
              /\ resp.res = "NotRecipient"
              /\ owner = resp.owner0
              /\ trades = resp.trades0

\* the offering user of a pending trade called AcceptTrade on it and got the
\* not-recipient error
C8_Witness ==
    /\ resp.op = "accept"
    /\ resp.res = "NotRecipient"
    /\ resp.tid \in DOMAIN resp.trades0
    /\ resp.trades0[resp.tid].status = "pending"
    /\ resp.user = resp.trades0[resp.tid].from

\* the recipient's AcceptTrade read the status of its trade as accepted or
\* declined
AcceptOfTerminal ==
    /\ resp.op = "accept"
    /\ resp.user = resp.to
    /\ resp.status \in {"accepted", "declined"}

C10_DeclineOnlyPending ==
    resp.op = "decline" =>
        /\ resp.res = "ok" <=>
              /\ resp.tid \in DOMAIN resp.trades0
              /\ resp.trades0[resp.tid].status = "pending"
        /\ resp.res = "ok" =>
              trades = [resp.trades0 EXCEPT ![resp.tid].status = "declined"]
        /\ resp.res # "ok" =>
              /\ resp.res = "NotFound"
              /\ trades = resp.trades0
        /\ owner = resp.owner0

\* DeclineTrade on an accepted trade returned the error and the trade is
\* still accepted
C10_Witness ==
    /\ resp.op = "decline"
    /\ resp.res = "NotFound"
    /\ resp.tid \in DOMAIN trades
    /\ trades[resp.tid].status = "accepted"

\* C11: a successful DeclineTrade on a pending trade sets the status of
\* that trade to declined and leaves the owner of every item, and every
\* other trade, unchanged.
C11_DeclineFrame ==
    resp.op = "decline" /\ resp.res = "ok" =>
        /\ resp.tid \in DOMAIN resp.trades0
        /\ trades[resp.tid] =
              [resp.trades0[resp.tid] EXCEPT !.status = "declined"]
        /\ \A t \in DOMAIN resp.trades0 \ {resp.tid} :
              trades[t] = resp.trades0[t]
        /\ DOMAIN trades = DOMAIN resp.trades0
        /\ owner = resp.owner0

\* DeclineTrade on a pending trade returned nil while another trade was
\* pending, and that other trade is still pending
C11_Witness ==
    /\ resp.op = "decline"
    /\ resp.res = "ok"
    /\ trades[resp.tid].status = "declined"
    /\ \E t \in DOMAIN trades \ {resp.tid} :
          resp.trades0[t].status = "pending" /\ trades[t].status = "pending"

\* C12: a trade reaches status declined only through a rejection issued by
\* its recipient or through the conflict resolver of an acceptance of
\* another trade that shares an item with it; a decline request of any
\* other user does not change the trade.
C12_DeclineOnlyByRecipient ==
    [][\A t \in DOMAIN trades :
          trades[t].status # "declined" /\ trades'[t].status = "declined"
          => \/ /\ resp'.op = "decline"
                /\ resp'.tid = t
                /\ resp'.user = trades[t].to
             \/ /\ resp'.op = "accept"
                /\ resp'.res = "ok"
                /\ resp'.tid # t
                /\ Items(trades[t]) \cap Items(trades'[resp'.tid]) # {}]_vars

\* a decline request of a user who is no party of the pending trade
\* returned nil and the trade is declined
C12_Witness ==
    /\ resp.op = "decline"
    /\ resp.res = "ok"
    /\ resp.user \notin {resp.trades0[resp.tid].to, resp.trades0[resp.tid].from}
    /\ resp.trades0[resp.tid].status = "pending"
    /\ trades[resp.tid].status = "declined"

\* the committed pending trades with the arguments of the CreateTrade call
\* that request p serves
IdenticalPending(p) ==
    {t \in DOMAIN trades :
        /\ trades[t].status = "pending"
        /\ trades[t].from = proc[p].from
        /\ trades[t].to = proc[p].to
        /\ trades[t].fromItems = proc[p].fl
        /\ trades[t].toItems = proc[p].tl}

\* C13: CreateTrade called with the arguments of an existing pending trade
\* returns success and is a no-op: when its existing-trade check finds the
\* committed pending trade the call returns nil (unless the store fails),
\* no trade row is created and no trade and no item changes.
C13_IdenticalIsNoOp ==
    [][\A p \in Procs :
          /\ proc[p].pc = "c_exists"
          /\ proc'[p] # proc[p]
          /\ IdenticalPending(p) # {}
          => /\ resp'.op = "create"
             /\ resp'.res \in {"ok", "StoreError"}
             /\ trades' = trades
             /\ owner' = owner
             /\ nextId' = nextId]_vars

\* a CreateTrade with the arguments of the one pending trade returned nil
\* without creating a row: that trade is still the only one
C13_Witness ==
    /\ resp.op = "create"
    /\ resp.res = "ok"
    /\ resp.tid = 0
    /\ trades = resp.trades0
    /\ Cardinality(DOMAIN trades) = 1
    /\ \E t \in DOMAIN trades :
        /\ trades[t].status = "pending"
        /\ trades[t].from = resp.from
        /\ trades[t].to = resp.to
        /\ trades[t].fromItems = resp.fl
        /\ trades[t].toItems = resp.tl

CreateCheckedCar(p) ==
    IF proc[p].pc = "c_vfrom" THEN proc[p].fl[proc[p].i]
    ELSE proc[p].tl[proc[p].i]

CreateCheckedParty(p) ==
    IF proc[p].pc = "c_vfrom" THEN proc[p].from ELSE proc[p].to

\* C15: CreateTrade (no identical pending trade existing) fails with the
\* not-owned error and persists nothing if an item of fromItems is not
\* owned by fromUser or an item of toItems is not owned by toUser: the
\* statement of its ownership verification that finds such an item ends the
\* call with that error (or the store fails), no trade row is created and
\* nothing changes; the INSERT is reached only from the last of these
\* statements.
C15_CreateNotOwned ==
    [][\A p \in Procs :
          /\ /\ proc[p].op = "create"
             /\ proc[p].pc \in {"c_vfrom", "c_vto"}
             /\ proc'[p] # proc[p]
             /\ owner[CreateCheckedCar(p)] # CreateCheckedParty(p)
             => /\ resp'.op = "create"
                /\ resp'.res \in {"NotOwned", "StoreError"}
                /\ trades' = trades
                /\ owner' = owner
                /\ nextId' = nextId
          /\ proc[p].pc # "c_insert" /\ proc'[p].pc = "c_insert"
             => \/ /\ proc[p].pc = "c_vto"
                   /\ proc[p].i = Len(proc[p].tl)
                \/ /\ proc[p].pc = "c_vfrom"
                   /\ proc[p].i = Len(proc[p].fl)
                   /\ proc[p].tl = <<>>
                \/ /\ proc[p].pc = "c_exists"
                   /\ proc[p].fl = <<>>
                   /\ proc[p].tl = <<>>]_vars

\* a CreateTrade that offers a car of another user returned the not-owned
\* error and created no trade
C15_Witness ==
    /\ resp.op = "create"
    /\ resp.res = "NotOwned"
    /\ \E c \in Range(resp.fl) : resp.owner0[c] # resp.from
    /\ trades = resp.trades0
    /\ owner = resp.owner0

\* C16: no trade becomes accepted, and no item is exchanged, while one of
\* its two parties lacks an active subscription, even if both were
\* subscribed when the trade was created: an AcceptTrade call gets past
\* its first statements only if both parties have one, and it commits only
\* if both have one.
C16_AcceptNeedsSubscription ==
    [][/\ \A p \in Procs :
            proc[p].pc = "idle" /\ proc'[p].op = "accept"
            => proc'[p].from \in subs /\ proc'[p].to \in subs
       /\ resp'.op = "accept" /\ resp'.res = "ok"
            => resp'.from \in subs /\ resp'.to \in subs]_vars

\* an AcceptTrade committed, and moved the items, of a trade whose
\* recipient has no active subscription
C16_Witness ==
    /\ Accepted
    /\ resp.to \notin subs
    /\ trades[resp.tid].status = "accepted"
    /\ owner # resp.owner0

\* C17: a failure to publish the trade-completed event during AcceptTrade
\* never rolls back the trade: when every other step succeeded and the
\* publication fails, the trade ends accepted with all its items
\* transferred.
C17_FeedFailureKeepsTrade ==
    resp.op = "accept" /\ resp.res = "FeedError" =>
        /\ trades[resp.tid].status = "accepted"
        /\ owner = Carried(resp.owner0, trades[resp.tid])

\* the publication failed in an AcceptTrade of a pending trade whose items
\* were with their offering parties, and the trade is pending and no item
\* has moved
C17_Witness ==
    /\ resp.op = "accept"
    /\ resp.res = "FeedError"
    /\ Acceptable(resp.owner0, resp.trades0[resp.tid])
    /\ trades[resp.tid].status = "pending"
    /\ owner = resp.owner0

\* the trade_completed rows of table feed that refer to trade t
FeedOf(t) ==
    {row \in BagToSet(feed) : row.type = "trade_completed" /\ row.ref = t}

\* no AcceptTrade of trade t is being served
NoAcceptInFlight(t) ==
    \A p \in Procs : ~(proc[p].op = "accept" /\ proc[p].tid = t)

\* C18: if AcceptTrade returns an error at any step (a failed commit
\* included), nothing it did persists: no item owner has changed, no trade
\* has changed, and no trade-completed feed entry for the trade exists (as
\* long as the trade is pending and no other AcceptTrade of it is being
\* served, every such entry is the work of a call that returned an error).
C18_ErrorPersistsNothing ==
    resp.op = "accept" /\ resp.res # "ok" =>
        /\ owner = resp.owner0
        /\ trades = resp.trades0
        /\ /\ resp.tid \in DOMAIN trades
           /\ trades[resp.tid].status = "pending"
           /\ NoAcceptInFlight(resp.tid)
           => FeedOf(resp.tid) = {}

\* an AcceptTrade returned a store error, its trade is pending, no item has
\* moved, and a trade-completed feed entry for the trade exists
C18_Witness ==
    /\ resp.op = "accept"
    /\ resp.res = "StoreError"
    /\ resp.tid \in DOMAIN trades
    /\ trades[resp.tid].status = "pending"
    /\ owner = resp.owner0
    /\ NoAcceptInFlight(resp.tid)
    /\ FeedOf(resp.tid) # {}

\* no request is being served
Quiescent == \A p \in Procs : proc[p].pc = "idle"

\* C19: exactly one trade-completed event is emitted per accepted trade: in
\* every quiescent state each accepted trade is referenced by exactly one
\* trade_completed feed entry, which names both parties, and no pending or
\* declined trade is referenced by any.
C19_OneEventPerAcceptedTrade ==
    Quiescent =>
        \A t \in DOMAIN trades :
            IF trades[t].status = "accepted"
            THEN /\ FeedOf(t) = {FeedRow(trades[t].from, "trade_completed",
                                         t, trades[t].to)}
                 /\ \A row \in FeedOf(t) : CopiesIn(row, feed) = 1
            ELSE FeedOf(t) = {}

\* two AcceptTrade calls for the same trade both committed: the second
\* commit found the trade accepted, and two trade_completed entries refer
\* to it
C19_Witness ==
    /\ Quiescent
    /\ Accepted
    /\ resp.trades0[resp.tid].status = "accepted"
    /\ \E row \in FeedOf(resp.tid) : CopiesIn(row, feed) = 2

\* C20: round trip: after a successful CreateTrade(fromUser, toUser,
\* fromItems, toItems) that created a new trade, GetTradeByID on that trade
\* returns the same fromUser, toUser, fromItems and toItems (same order)
\* with status pending and no tradedAt.
C20_CreateGetRoundTrip ==
    resp.op = "create" /\ resp.res = "ok" /\ resp.tid # 0 =>
        GetTradeByID(resp.tid) =
            [ID |-> resp.tid,
             UserIDFrom |-> resp.from,
             UserIDTo |-> resp.to,
             Status |-> "pending",
             UserFromCarIDs |-> resp.fl,
             UserToCarIDs |-> resp.tl,
             TradedAt |-> "nil"]

\* a CreateTrade with two cars on one side and one on the other has
\* committed its new row
C20_Witness ==
    /\ resp.op = "create"
    /\ resp.res = "ok"
    /\ resp.tid # 0
    /\ resp.tid \notin DOMAIN resp.trades0
    /\ Len(resp.fl) = 2
    /\ Len(resp.tl) = 1
    /\ GetTradeByID(resp.tid) # NilTradeInfo

\* two distinct pending trades that list a common item
SharedPending(tbl) ==
    {pair \in (DOMAIN tbl) \X (DOMAIN tbl) :
        /\ pair[1] # pair[2]
        /\ tbl[pair[1]].status = "pending"
        /\ tbl[pair[2]].status = "pending"
        /\ Items(tbl[pair[1]]) \cap Items(tbl[pair[2]]) # {}}

C22_OnePendingTradePerCar == SharedPending(trades) = {}

\* two pending trades list car 1
C22_Witness ==
    \E pair \in SharedPending(trades) :
        1 \in Items(trades[pair[1]]) \cap Items(trades[pair[2]])

\* C23: a trade's tradedAt is set if and only if its status is accepted.
C23_TradedAtIffAccepted ==
    \A t \in DOMAIN trades :
        trades[t].tradedAt <=> trades[t].status = "accepted"

\* an accepted trade with its tradedAt, beside a trade that the acceptance
\* declined and that has none
C23_Witness ==
    /\ Accepted
    /\ trades[resp.tid].status = "accepted"
    /\ trades[resp.tid].tradedAt
    /\ \E t \in DOMAIN trades :
          /\ resp.trades0[t].status = "pending"
          /\ trades[t].status = "declined"
          /\ ~trades[t].tradedAt

\* C24: a trade is an immutable history record: no step that finds, or
\* leaves, a trade with a status other than pending changes its fromItems,
\* toItems, fromUser or toUser, and no trade row disappears.
C24_ImmutableRecord ==
    [][\A t \in DOMAIN trades :
          /\ t \in DOMAIN trades'
          /\ trades[t].status # "pending" \/ trades'[t].status # "pending"
             => /\ trades'[t].fromItems = trades[t].fromItems
                /\ trades'[t].toItems = trades[t].toItems
                /\ trades'[t].from = trades[t].from
                /\ trades'[t].to = trades[t].to]_vars

\* user 1 has sold car 1, which a declined trade lists, and the trade row
\* still lists it
C24_Witness ==
    /\ resp.op = "sell"
    /\ resp.res = "ok"
    /\ owner[resp.car] = SystemUser
    /\ \E t \in DOMAIN resp.trades0 :
          /\ resp.trades0[t].status = "declined"
          /\ resp.car \in Range(resp.trades0[t].fromItems)
          /\ resp.car \in Range(trades[t].fromItems)

\* the trades of a user newest first, trades of one instant by descending id
NewestFirst(userID) ==
    CHOOSE ord \in Orderings(UserTradeIds(userID)) :
        \A i, j \in 1..Len(ord) :
            i < j => \/ trades[ord[i]].createdAt > trades[ord[j]].createdAt
                     \/ /\ trades[ord[i]].createdAt = trades[ord[j]].createdAt
                        /\ ord[i] > ord[j]

\* C25: GetUserTrades(user, page, pageSize) returns the trades in which user
\* is fromUser or toUser, newest first with ties in creation time broken by
\* descending trade id: every page is the slice of that one order, so
\* consecutive pages neither repeat nor omit a trade; totalCount is the
\* number of trades in which user is either party.
C25_StablePages ==
    resp.op = "history" /\ resp.res = "ok" =>
        /\ resp.total = Cardinality(UserTradeIds(resp.user))
        /\ resp.rows = LimitOffset(NewestFirst(resp.user), resp.pageSize,
                                   (resp.page - 1) * resp.pageSize)

\* the second page of size 1 of a user with two trades of the same instant
\* holds the newer of the two, which belongs on the first page
C25_Witness ==
    /\ resp.op = "history"
    /\ resp.page = 2
    /\ resp.pageSize = 1
    /\ resp.total = 2
    /\ Len(resp.rows) = 1
    /\ \E t \in UserTradeIds(resp.user) :
          /\ t < resp.rows[1]
          /\ trades[t].createdAt = trades[resp.rows[1]].createdAt

\* a token that is generated and not stored stays out of the token store
GoneStaysGone ==
    \A token \in 1..jwts :
        token \notin DOMAIN refreshTokens => token \notin DOMAIN refreshTokens'

\* request p is taken up with the refresh token it sent
TokenArrival(p) ==
    /\ proc[p].pc = "idle"
    /\ proc'[p].op \in {"refresh", "logout"}

\* C26: refresh-token rotation: after RefreshTokens(t) succeeds, t is no
\* longer stored and never is again, a later refresh or logout with t is
\* not taken up, and the returned refresh token differs from t and is
\* stored.
C26_Rotation ==
    [][/\ resp'.op = "refresh" /\ resp'.res = "ok"
          => /\ resp'.token \notin DOMAIN refreshTokens'
             /\ resp'.new # resp'.token
             /\ resp'.new \in DOMAIN refreshTokens'
       /\ GoneStaysGone
       /\ \A p \in Procs :
             TokenArrival(p) => proc'[p].token \in DOMAIN refreshTokens]_vars

\* RefreshTokens has returned a new refresh token that is not stored, and
\* has deleted the old one
C26_Witness ==
    /\ resp.op = "refresh"
    /\ resp.res = "ok"
    /\ resp.token \in DOMAIN resp.tokens0
    /\ resp.token \notin DOMAIN refreshTokens
    /\ resp.new \notin DOMAIN refreshTokens

\* C27: after Logout(t) succeeds, t is removed from the token store and
\* never is stored again, and every later RefreshTokens(t) or Logout(t)
\* fails; a Logout with a token that is not stored or is expired fails and
\* removes nothing: a call is taken up only with a stored, unexpired token,
\* and the call that is not taken up changes no row.
C27_Logout ==
    [][/\ resp'.op = "logout" /\ resp'.res = "ok"
          => resp'.token \notin DOMAIN refreshTokens'
       /\ \A token \in 1..jwts :
             token \notin DOMAIN refreshTokens
                 => token \notin DOMAIN refreshTokens'
       /\ \A p \in Procs :
             TokenArrival(p) =>
                 /\ proc'[p].token \in DOMAIN refreshTokens
                 /\ ~refreshTokens[proc'[p].token].expired
       /\ resp'.op \in {"logout", "refresh"} /\ resp'.res = "Invalid"
          => refreshTokens' = refreshTokens]_vars

\* a Logout has removed the token it was sent
C27_Witness ==
    /\ resp.op = "logout"
    /\ resp.res = "ok"
    /\ resp.token \in DOMAIN resp.tokens0
    /\ resp.token \notin DOMAIN refreshTokens

RECURSIVE GrantedBy(_)
\* the scan credits of a list of purchased products
GrantedBy(products) ==
    IF products = <<>> THEN 0
    ELSE ScanCredits(Head(products)) + GrantedBy(Tail(products))

\* the scan credits a user holds in a table of credit rows
CreditsOf(tbl, userID) ==
    IF userID \in DOMAIN tbl THEN tbl[userID] ELSE DefaultCredits

\* C28: each scan consumes one scan credit and a scan requires an available
\* credit: for every user, under any interleaving of concurrent scan
\* requests, the successful scans never exceed the credits the user was
\* granted (6 initial credits plus purchased credits), and
\* scan_credits_remaining never becomes negative.
C28_ScansWithinCredits ==
    \A userID \in Users :
        /\ scans[userID] <= DefaultCredits + GrantedBy(purchased[userID])
        /\ userID \in DOMAIN credits => credits[userID] >= 0

\* a user who bought nothing has scanned more cars than the initial credits
C28_Witness ==
    \E userID \in Scanners :
        /\ purchased[userID] = <<>>
        /\ scans[userID] > DefaultCredits
        /\ credits[userID] = 0

\* C29: when a subscription or scan pack is purchased, the product's scan
\* credits are added to the user's existing credits, also for a new user
\* who has never scanned and still holds the 6 initial credits.
C29_PurchaseAddsCredits ==
    resp.op = "purchase" /\ resp.res = "ok" =>
        CreditsOf(credits, resp.user) =
            CreditsOf(resp.credits0, resp.user) + ScanCredits(resp.product)

\* a user without a row in user_subscriptions has bought the ten-credit
\* scan pack and holds ten credits
C29_Witness ==
    /\ resp.op = "purchase"
    /\ resp.res = "ok"
    /\ resp.product = "tencredits"
    /\ resp.user \notin DOMAIN resp.credits0
    /\ scans[resp.user] = 0
    /\ credits[resp.user] = ScanCredits("tencredits")

\* the paths a car had before the first of the upgrades that are active in
\* rows
BeforeFirstUpgrade(rows, userCarID) ==
    rows[CHOOSE i \in ActiveUpgrades(rows, userCarID) :
            \A j \in ActiveUpgrades(rows, userCarID) : i <= j].original

\* C30: original images can be restored at any time: after one or more
\* successful UpgradeCarImage calls on a car followed by a successful
\* RevertCarImage, the car's image paths equal the paths it had before the
\* first upgrade, and the revert costs no currency.
C30_RevertRestoresOriginal ==
    resp.op = "revert" /\ resp.res = "ok" =>
        /\ images[resp.car] = BeforeFirstUpgrade(resp.upgrades0, resp.car)
        /\ currency = resp.currency0

\* a revert after two upgrades of a car has left the car with the premium
\* images of the first upgrade
C30_Witness ==
    /\ resp.op = "revert"
    /\ resp.res = "ok"
    /\ Cardinality(ActiveUpgrades(resp.upgrades0, resp.car)) = 2
    /\ images[resp.car] # OriginalImages(resp.car)
    /\ images[resp.car] = resp.upgrades0[1].premium

\* friend request id changes its status in this step
StatusChanges(id) ==
    id \in DOMAIN friends /\ friends'[id].status # friends[id].status

\* in this step the handler serves the response of the recipient of friend
\* request id
RecipientResponds(id, response) ==
    \/ \E p \in Procs :
          /\ proc[p].pc = "idle"
          /\ proc'[p].op = "respond"
          /\ proc'[p].request = id
          /\ proc'[p].response = response
          /\ proc'[p].user = friends[id].friend
    \/ /\ resp'.op = "respond"
       /\ resp'.request = id
       /\ resp'.response = response
       /\ resp'.user = friends[id].friend

\* C31: a friend request's status becomes accepted only as the result of an
\* accept response issued by the request's recipient (friend_id), and
\* rejected only by a reject response of the recipient; a response from any
\* other user leaves the request unchanged.
C31_OnlyRecipientResponds ==
    [][\A id \in RequestIds :
          StatusChanges(id) =>
              \/ /\ friends'[id].status = "accepted"
                 /\ RecipientResponds(id, "accept")
              \/ /\ friends'[id].status = "rejected"
                 /\ RecipientResponds(id, "reject")]_vars

\* a pending friend request has been rejected by a user who is not its
\* recipient
C31_Witness ==
    /\ resp.op = "respond"
    /\ resp.response = "reject"
    /\ resp.res = "ok"
    /\ resp.request \in DOMAIN resp.friends0
    /\ resp.friends0[resp.request].status = "pending"
    /\ resp.user # resp.friends0[resp.request].friend
    /\ friends[resp.request].status = "rejected"

\* C32: the trade operations only reassign owners of listed items:
\* CreateTrade and DeclineTrade change the owner of no item, and a successful
\* AcceptTrade(T) reassigns exactly the items in T.fromItems and T.toItems,
\* each to the other party, and changes the owner of no other item; no trade
\* operation creates or deletes an item.
C32_OnlyListedItems ==
    [][/\ DOMAIN owner' = DOMAIN owner
       /\ resp'.op \in {"create", "decline"} => owner' = owner
       /\ \A c \in Cars :
             owner'[c] # owner[c] =>
                 /\ resp'.op = "accept"
                 /\ resp'.res = "ok"
                 /\ c \in Range(resp'.fl) \cup Range(resp'.tl)
       /\ resp'.op = "accept" /\ resp'.res = "ok" =>
             /\ \A c \in Range(resp'.fl) : owner'[c] = resp'.to
             /\ \A c \in Range(resp'.tl) : owner'[c] = resp'.from]_vars

\* an accepted trade has moved its one item and left the two unlisted items
\* with their owners
C32_Witness ==
    /\ Accepted
    /\ Cardinality(Range(resp.fl) \cup Range(resp.tl)) = 1
    /\ \A c \in Range(resp.fl) :
          resp.owner0[c] = resp.from /\ owner[c] = resp.to
    /\ \A c \in Cars \ (Range(resp.fl) \cup Range(resp.tl)) :
          owner[c] = resp.owner0[c]

\* the pairs of distinct pending rows of tbl that hold the same offer
DuplicatePending(tbl) ==
    {pair \in (DOMAIN tbl) \X (DOMAIN tbl) :
        /\ pair[1] < pair[2]
        /\ tbl[pair[1]].status = "pending"
        /\ tbl[pair[2]].status = "pending"
        /\ tbl[pair[1]].from = tbl[pair[2]].from
        /\ tbl[pair[1]].to = tbl[pair[2]].to
        /\ tbl[pair[1]].fromItems = tbl[pair[2]].fromItems
        /\ tbl[pair[1]].toItems = tbl[pair[2]].toItems}

\* C33: under any interleaving of concurrent CreateTrade calls with
\* identical arguments, no reachable state contains two pending trades with
\* the same (fromUser, toUser, fromItems, toItems).
C33_NoDuplicatePending == DuplicatePending(trades) = {}

\* the second of two CreateTrade calls with the same arguments has returned
\* nil and table trades holds two pending rows of that offer, one inserted
\* by each call
C33_Witness ==
    /\ resp.op = "create"
    /\ resp.res = "ok"
    /\ resp.tid \in DOMAIN trades \ DOMAIN resp.trades0
    /\ \E t \in DOMAIN resp.trades0 :
          /\ resp.trades0[t] = TradeRow(resp.from, resp.to, resp.fl, resp.tl)
          /\ <<t, resp.tid>> \in DuplicatePending(trades)

\* trade t of tbl is outside the reach of declineTradesWithCars for the
\* items carIDs: it is no longer pending, or none of its items is among them
OutOfReach(tbl, t, carIDs) ==
    \/ tbl[t].status # "pending"
    \/ Items(tbl[t]) \cap Range(carIDs) = {}

\* C34: the Conflict Resolver changes only conflicting pending trades: when
\* AcceptTrade(T) runs, every trade that is already accepted or declined, and
\* every pending trade whose fromItems and toItems are both disjoint from
\* the items of T, keeps its status; T itself is excluded and ends accepted.
C34_ResolverFrame ==
    [][resp'.op = "accept" /\ resp'.res = "ok" =>
          /\ trades'[resp'.tid].status = "accepted"
          /\ \A t \in DOMAIN trades \ {resp'.tid} :
                OutOfReach(trades, t, resp'.fl \o resp'.tl) =>
                    trades'[t] = trades[t]]_vars

\* an AcceptTrade has returned nil while another trade with none of its
\* items was pending, and that trade is still pending
C34_Witness ==
    /\ Accepted
    /\ trades[resp.tid].status = "accepted"
    /\ \E t \in DOMAIN resp.trades0 \ {resp.tid} :
          /\ resp.trades0[t].status = "pending"
          /\ Items(resp.trades0[t]) \cap Items(trades[resp.tid]) = {}
          /\ trades[t].status = "pending"

\* C35: ownership verification and transfer in AcceptTrade act on one
\* consistent view: under any interleaving with a concurrent SellCar or
\* AcceptTrade on the same item, AcceptTrade never reassigns an item that,
\* at the moment of reassignment, is not owned by the party offering it; in
\* particular a car that was sold (owner = system user 0) is never given to
\* a user by a trade.
C35_ReassignsOwnedItems ==
    Accepted =>
        /\ \A c \in Range(resp.fl) : resp.owner0[c] = resp.from
        /\ \A c \in Range(resp.tl) : resp.owner0[c] = resp.to

\* an AcceptTrade has returned nil and has given a user a car that was sold
\* to the system user while the call was running
C35_Witness ==
    /\ Accepted
    /\ \E c \in Range(resp.fl) :
          /\ resp.owner0[c] = SystemUser
          /\ owner[c] = resp.to
          /\ resp.to \in Users

\* C36: SellCar awards the rarity-based currency for a car at most once and
\* only to the user from whom the car actually moves to system ownership
\* (user 0): under any interleaving of concurrent SellCar calls on the same
\* car, or of SellCar with an AcceptTrade that moves the car, a user's
\* currency increases only if that call changed the car's owner from that
\* user to 0.
C36_PaidOnlyForMovedCar ==
    [][\A u \in Users :
          currency'[u] > currency[u] =>
              /\ resp'.op = "sell"
              /\ resp'.res = "ok"
              /\ resp'.user = u
              /\ currency'[u] =
                     currency[u] + GetCurrencyForRarity(Rarity(resp'.car))
              /\ owner[resp'.car] = u
              /\ owner'[resp'.car] = SystemUser]_vars

\* a SellCar has returned nil and has paid the user for a car that an
\* earlier SellCar of the same user had already moved to the system user
C36_Witness ==
    /\ resp.op = "sell"
    /\ resp.res = "ok"
    /\ resp.owner0[resp.car] = SystemUser
    /\ owner[resp.car] = SystemUser
    /\ resp.currency0[resp.user] = GetCurrencyForRarity(Rarity(resp.car))
    /\ currency[resp.user] = 2 * GetCurrencyForRarity(Rarity(resp.car))

\* C37: a refresh token is single-use under concurrency: for any stored
\* refresh token t, among any number of concurrently executing
\* RefreshTokens(t) calls at most one succeeds.  Where tokens are only
\* refreshed, the row of t disappears only when a RefreshTokens(t) succeeds
\* and never comes back, so a RefreshTokens(t) succeeds a second time
\* exactly if it succeeds when t has no row.
C37_SingleUse ==
    [][/\ resp'.op = "refresh" /\ resp'.res = "ok"
          => resp'.token \in DOMAIN refreshTokens
       /\ \A token \in DOMAIN refreshTokens \ DOMAIN refreshTokens' :
             resp'.op = "refresh" /\ resp'.res = "ok" /\ resp'.token = token
       /\ \A token \in DOMAIN refreshTokens' \ DOMAIN refreshTokens :
             token = jwts']_vars

\* the second of two RefreshTokens calls with the same token has returned
\* new tokens: the old token had no row any more, and two refresh tokens
\* generated after it are stored and unexpired
C37_Witness ==
    /\ resp.op = "refresh"
    /\ resp.res = "ok"
    /\ resp.token # NoJWT
    /\ resp.token \notin DOMAIN resp.tokens0
    /\ resp.new \in DOMAIN refreshTokens
    /\ \E other \in DOMAIN refreshTokens \ {resp.new} :
          /\ other > resp.token
          /\ refreshTokens[other].user = refreshTokens[resp.new].user
          /\ ~refreshTokens[other].expired
          /\ ~refreshTokens[resp.new].expired

\* the credits of this transaction were granted to the user by a committed
\* purchase: the scan pack's transaction_id has a row in
\* scan_pack_purchases, or the user's subscription row holds the
\* transaction's original_transaction_id
AlreadyGranted(userID, tx) ==
    \/ /\ ProductType(tx.product) = "scanpack"
       /\ tx.id \in scanPackPurchases
    \/ /\ ProductType(tx.product) = "subscription"
       /\ userID \in DOMAIN credits
       /\ originalTransactionId[userID] = tx.original

\* C38: a purchase transaction grants its scan credits at most once:
\* submitting the same scan-pack transaction ID again, or the same
\* subscription transaction (same original transaction ID) again,
\* sequentially or concurrently, does not increase the user's
\* scan_credits_remaining a second time.  A purchase that succeeds for a
\* transaction whose credits a committed purchase already granted leaves
\* the user's credits no higher than they were.
C38_GrantedOnce ==
    [][/\ resp'.op = "purchase"
       /\ resp'.res = "ok"
       /\ AlreadyGranted(resp'.user, resp'.transaction)
       => CreditsOf(credits', resp'.user) <= CreditsOf(credits, resp'.user)]_vars

\* the subscription transaction of a user whose subscription row already
\* held its original transaction id has been processed again, and the
\* product's scan credits were added a second time
C38_Witness ==
    /\ resp.op = "purchase"
    /\ resp.res = "ok"
    /\ ProductType(resp.product) = "subscription"
    /\ purchased[resp.user] = <<resp.product, resp.product>>
    /\ originalTransactionId[resp.user] = resp.transaction.original
    /\ resp.user \in DOMAIN resp.credits0
    /\ credits[resp.user] =
           resp.credits0[resp.user] + ScanCredits(resp.product)
    /\ credits[resp.user] >= 2 * ScanCredits(resp.product)

====
